---------------------------- MODULE Spec2Model ----------------------------
(***************************************************************************)
(* Model of the BQ35100 fuel-gauge protocol engine                         *)
(* (src/drivers/fuel_gauge/bq35100/bq35100.c).                             *)
(*                                                                         *)
(* The driver is sequential C code that talks to the device through I2C    *)
(* transactions.  Every C function is modelled by an operator of the same  *)
(* name.  An operator takes a context record c (the tracked security mode, *)
(* the bus trace so far and the out-parameters of the last callee) and     *)
(* returns the SET of contexts the function can end in: one element per    *)
(* possible behaviour of the device (transport success or failure of each  *)
(* transaction, bytes returned by each read, contents of uninitialised     *)
(* locals).  A driver entry point is one action that picks one outcome.    *)
(***************************************************************************)
EXTENDS Integers, Sequences, FiniteSets, TLC

VARIABLES g_security_mode, \* bq35100.c:37, the tracked security mode
          char_is_signed,  \* the build: plain char is a signed type
          init_done,       \* the kernel has run bq35100_init
          inst_done,       \* the device instances it has run it for
          pc,              \* "idle": no call in progress, "done": a call returned
          call,            \* the call that returned last (function and arguments)
          ret,             \* its return value
          trace,           \* its bus transactions and sleeps, in order
          out,             \* the bytes / value it delivered to its caller
          prev,            \* the security-mode request that returned right
                           \* before the current call, if that is what the
                           \* previous call was
          task,            \* callers that run concurrently: for each, where
                           \* it is in bq35100_write_extended_data, its
                           \* locals, and what other callers did between
                           \* its frame write and its checksum/length write
          overlapped       \* a concurrent caller entered the driver while
                           \* another caller's call was in progress

vars == <<g_security_mode, char_is_signed, init_done, inst_done, pc, call, ret,
          trace, out, prev, task, overlapped>>

-----------------------------------------------------------------------------
(* Program constants                                                       *)

\* bq35100.c:30-35
SECURITY_UNKNOWN     == 0
SECURITY_FULL_ACCESS == 1
SECURITY_UNSEALED    == 2
SECURITY_SEALED      == 3

BQ35100_DEVICE_TYPE       == 256   \* 0x100, bq35100.c:19
BQ35100_MAC_DATA_LEN      == 32    \* bq35100.c:21
BQ35100_MAC_OVERHEAD_LEN  == 4     \* bq35100.c:22
BQ35100_MAC_COMPLETE_LEN  == BQ35100_MAC_DATA_LEN + BQ35100_MAC_OVERHEAD_LEN
BQ35100_CNTL_DATA_LEN     == 2     \* bq35100.c:25
BQ35100_FLASH_WRITE_DELAY == 100   \* bq35100.c:27
BQ35100_NEW_BATTERY_DELAY == 500   \* bq35100.c:28

\* Register map and opcodes of bq35100.h (header not part of the sources;
\* values of the device's data sheet, bq35100.c:201 names 0x60 and 0x61).
BQ35100_REG_CONTROL_STATUS       == 0     \* 0x00
BQ35100_REG_ACCUMULATED_CAPACITY == 2     \* 0x02
BQ35100_REG_VOLTAGE              == 8     \* 0x08
BQ35100_REG_CURRENT              == 12    \* 0x0C
BQ35100_REG_DESIGN_CAPACITY      == 60    \* 0x3C
BQ35100_REG_MAC                  == 62    \* 0x3E
BQ35100_REG_MAC_DATA             == 64    \* 0x40
BQ35100_REG_MAC_DATA_SUM         == 96    \* 0x60
BQ35100_REG_MAC_DATA_LEN         == 97    \* 0x61

BQ35100_MAC_CMD_DEVICETYPE  == 1      \* 0x0001
BQ35100_MAC_CMD_GAUGE_START == 17     \* 0x0011
BQ35100_MAC_CMD_GAUGE_STOP  == 18     \* 0x0012
BQ35100_MAC_CMD_SEALED      == 32     \* 0x0020
BQ35100_MAC_CMD_RESET       == 65     \* 0x0041
BQ35100_MAC_CMD_NEW_BATTERY == 42515  \* 0xA613

BQ35100_FLASH_FULL_ACCESS_CODES    == 16848  \* 0x41D0
BQ35100_FLASH_CMD_SET_NEW_CAPACITY == 16894  \* 0x41FE
BQ35100_DEFAULT_SEAL_CODES         == 68433522 \* 0x04143672

\* errno values used by the driver
EIO     == 5
ENODEV  == 19
EINVAL  == 22
ENOTSUP == 134

\* Kconfig CONFIG_BQ35100_MAX_RETRIES (bq35100.c:345, 422)
CONFIG_BQ35100_MAX_RETRIES == 3

-----------------------------------------------------------------------------
(* Integer helpers: C operators on fixed-width unsigned values             *)

BIT(n) == 2 ^ n

RECURSIVE BitAndN(_, _, _)
BitAndN(a, b, n) ==
    IF n = 0 THEN 0
    ELSE (IF a % 2 = 1 /\ b % 2 = 1 THEN 1 ELSE 0)
         + 2 * BitAndN(a \div 2, b \div 2, n - 1)

\* a & b on 16-bit operands
BitAnd(a, b) == BitAndN(a, b, 16)

\* FIELD_GET(BIT_MASK(2) << 13, w)
FIELD_GET_SEC(w) == (w \div BIT(13)) % 4

\* sys_put_le16 / sys_get_le16 / sys_put_be16
sys_put_le16(v) == << v % 256, (v \div 256) % 256 >>
sys_get_le16(b) == b[1] + 256 * b[2]
sys_put_be16(v) == << (v \div 256) % 256, v % 256 >>

-----------------------------------------------------------------------------
(* The device as seen through the transport                                *)

\* Flag bits of a status word besides the security field:
\* bit 0 gauge running, bit 7 init complete, bit 15 last MAC write failed.
\* Status words the device may report: one for every value of the security
\* field (bits 13-14), each flag set in some and clear in others.
StatusWords ==
    { 0,                                                   \* security field 0
      SECURITY_FULL_ACCESS * BIT(13) + BIT(7) + BIT(15),
      SECURITY_UNSEALED * BIT(13),
      SECURITY_SEALED * BIT(13) + BIT(0) + BIT(7) }

\* Values an uninitialised uint16_t local may hold.
Uninit16 == {0, BIT(0), BIT(7), 65535}

\* Raw 16-bit register values the device may report (voltage, current,
\* design capacity), and accumulated-capacity values, which the device
\* reports as 32-bit two's complement.
RawWords16 == {0, 1, 2000, 3700, 32767, 32768, 65436, 65535}
RawInts32  == {0, 100000, -500000, -1000000, -5000000, 2147483647,
               -2147483647 - 1, -1}

\* Responses to the device-type query.
DeviceTypes == {BQ35100_DEVICE_TYPE, 0}

\* The four little-endian bytes of the two's complement of v.
sys_put_le32(v) ==
    << v % 256, (v \div 256) % 256, (v \div 65536) % 256, (v \div 16777216) % 256 >>

\* bq35100.c:43-58 for a non-NULL data pointer and length <= 254 bytes, all
\* inside data (x is a uint8_t: the loop ends only when length < 255)
RECURSIVE SumBytes(_, _)
SumBytes(data, length) ==
    IF length = 0 THEN 0
    ELSE (SumBytes(data, length - 1) + data[length]) % 256

\* bq35100.c:43-58 with line 54 negating the sum: checksum = -checksum
compute_checksum_negated(data, length) == (256 - SumBytes(data, length)) % 256

bq35100_compute_checksum(data, length) == 255 - SumBytes(data, length)

\* A 36-byte MAC frame: 2 address bytes, 32 data bytes, checksum, length.
MkFrame(lo, hi, data, sum, len) == <<lo, hi>> \o data \o <<sum, len>>

\* The 32 data bytes of a frame whose first bytes are d, zero padded.
PadData(d) == [i \in 1..BQ35100_MAC_DATA_LEN |-> IF i <= Len(d) THEN d[i] ELSE 0]

\* Frame contents the device may return for a block read: echoed addresses,
\* payloads, length bytes, and a checksum that is right or off by delta.
FrameAddrs    == {BQ35100_FLASH_FULL_ACCESS_CODES, 16384}
FramePayloads == { <<1, 2, 3, 200>> }
FrameLens     == {2, 4, 5, 8, 36}
FrameSumDelta == {0, 1}

\* Length bytes outside what a well-formed frame carries: below the 2 bytes
\* of checksum and length, and beyond the 36 bytes of the frame.
FrameLensOutside == {1, 40}

DeviceFrames ==
    { LET body == sys_put_le16(a) \o PadData(d)
      IN  MkFrame(body[1], body[2], PadData(d),
                  (bq35100_compute_checksum(body, l - 2) + e) % 256, l)
      : a \in FrameAddrs, d \in FramePayloads, l \in FrameLens, e \in FrameSumDelta }
    \cup { MkFrame(sys_put_le16(a)[1], sys_put_le16(a)[2], PadData(d), 0, l)
          : a \in FrameAddrs, d \in FramePayloads, l \in FrameLensOutside }

\* Contents an uninitialised byte buffer of n bytes may hold; for a frame
\* buffer one of them passes the checksum test with length byte 2.
UninitBytes(n) ==
    { [i \in 1..n |-> 0], [i \in 1..n |-> 255] }
    \cup (IF n = BQ35100_MAC_COMPLETE_LEN
          THEN { [i \in 1..n |-> IF i = n THEN 2 ELSE 255] } ELSE {})

\* Bytes the device may return for a read of len bytes at register reg.
DeviceData(reg, len) ==
    IF reg = BQ35100_REG_CONTROL_STATUS
    THEN { sys_put_le16(w) : w \in StatusWords }
    ELSE IF reg = BQ35100_REG_MAC_DATA
    THEN { sys_put_le16(w) : w \in DeviceTypes }
    ELSE IF reg = BQ35100_REG_MAC
    THEN DeviceFrames
    ELSE IF reg = BQ35100_REG_ACCUMULATED_CAPACITY
    THEN { sys_put_le32(w) : w \in RawInts32 }
    ELSE { sys_put_le16(w) : w \in RawWords16 }

-----------------------------------------------------------------------------
(* Contexts and transport primitives                                       *)

\* mode: g_security_mode; sgn: plain char is signed in this build;
\* trace: bus events; rc: return value of the callee; word: 16-bit
\* out-parameter of the callee; buf: buffer of the last bus read; data: the
\* caller's buffer of an extended-memory read; copied: bytes copied into it;
\* fault: "hang" when the callee never returns, "oob" when it read outside
\* an object; last_status: the bus event of the last completed
\* bq35100_get_status (0: none yet); assigned: the assignments made to
\* g_security_mode, each with the bus event that delivered the status word it
\* decoded (from) and last_status at the time of the assignment.
Ctx(mode, sgn) ==
    [mode |-> mode, sgn |-> sgn, trace |-> <<>>, rc |-> 0, word |-> 0,
     buf |-> <<>>, data |-> <<>>, copied |-> 0, fault |-> "none",
     last_status |-> 0, assigned |-> <<>>]

\* g_security_mode = m, m decoded from the status word of bus event from
Assign(c, m, from) ==
    [c EXCEPT !.mode = m,
              !.assigned = Append(@, [mode |-> m, from |-> from,
                                      last |-> c.last_status])]

Event(op, reg, bytes, n, ok) ==
    [op |-> op, reg |-> reg, bytes |-> bytes, n |-> n, ok |-> ok]

Log(c, e) == [c EXCEPT !.trace = Append(@, e)]

\* A function without out-parameters returns: its locals are gone.
Leave(c) == [c EXCEPT !.word = 0, !.buf = <<>>]

\* k_sleep(K_MSEC(ms))
k_sleep(c, ms) == Log(c, Event("sleep", 0, <<>>, ms, TRUE))

\* i2c_write_dt: the transaction succeeds or fails.
i2c_write_dt(c, data) ==
    { [Log(c, Event("write", data[1], data, Len(data), r))
         EXCEPT !.rc = IF r THEN 0 ELSE -EIO] : r \in BOOLEAN }

\* i2c_read_dt of len bytes after the register address reg was written:
\* on success the buffer holds the device's bytes, on failure it is untouched.
i2c_read_dt(c, reg, len) ==
    { [Log(c, Event("read", reg, d, len, TRUE)) EXCEPT !.rc = 0, !.buf = d]
        : d \in DeviceData(reg, len) }
    \cup { [Log(c, Event("read", reg, <<>>, len, FALSE)) EXCEPT !.rc = -EIO] }

\* bq35100.c:60-73
bq35100_write(c, data) == i2c_write_dt(c, data)

\* bq35100.c:75-97; c.buf is read_data on entry
bq35100_read(c, write_data, read_len) ==
    UNION { IF c1.rc # 0 THEN {c1}
            ELSE i2c_read_dt(c1, write_data[1], read_len)
          : c1 \in i2c_write_dt(c, write_data) }

\* bq35100.c:99-107 (callers pass len = 2; the 3-byte buffer is sent)
bq35100_send_data(c, address, data) == bq35100_write(c, <<address>> \o data)

\* bq35100.c:109-115
bq35100_get_data(c, address, len) == bq35100_read(c, <<address>>, len)

\* bq35100.c:117-124
bq35100_send_cntl(c, cntl_address) ==
    bq35100_send_data(c, BQ35100_REG_CONTROL_STATUS, sys_put_le16(cntl_address))

\* bq35100.c:126-156; c.word is *data
bq35100_get_cntl(c, cntl_address) ==
    UNION { IF c1.rc # 0 THEN {c1} ELSE
      UNION { IF c2.rc # 0 THEN {c2} ELSE
        { IF c3.rc # 0 THEN c3
          ELSE [c3 EXCEPT !.word = sys_get_le16(c3.buf), !.buf = <<>>]
        : c3 \in bq35100_get_data(c2, BQ35100_REG_MAC_DATA, 2) }
      : c2 \in bq35100_get_data(c1, BQ35100_REG_CONTROL_STATUS, 2) }
    : c1 \in bq35100_send_data(c, BQ35100_REG_CONTROL_STATUS,
                               sys_put_le16(cntl_address)) }

\* bq35100.c:317-338; c.word is *status on entry and on exit
bq35100_get_status(c) ==
    { IF c1.rc # 0 THEN c1
      ELSE [c1 EXCEPT !.word = sys_get_le16(c1.buf), !.rc = 0, !.buf = <<>>,
                      !.last_status = Len(c1.trace)]
    : c1 \in bq35100_get_data(c, BQ35100_REG_CONTROL_STATUS, 2) }

\* bq35100.c:345-359, iteration i of the loop; c.word is answer
RECURSIVE wait_for_status_loop(_, _, _, _, _)
wait_for_status_loop(c, i, expected, mask, millis) ==
    IF ~(i < CONFIG_BQ35100_MAX_RETRIES)
    THEN { [c EXCEPT !.rc = -EINVAL] }
    ELSE UNION {
           IF c1.rc = 0                                \* !bq35100_get_status()
           THEN { [c1 EXCEPT !.rc = 0] }               \* return false
           ELSE IF BitAnd(c1.word, mask) = expected
                THEN { [c1 EXCEPT !.rc = 1] }          \* return true
                ELSE wait_for_status_loop(k_sleep(c1, millis), i + 1,
                                          expected, mask, millis)
         : c1 \in bq35100_get_status(c) }

\* bq35100.c:340-364; answer starts uninitialised
bq35100_wait_for_status(c, expected, mask, millis) ==
    UNION { { Leave(c1)
            : c1 \in wait_for_status_loop([c EXCEPT !.word = a], 0, expected,
                                          mask, millis) }
          : a \in Uninit16 }

\* bq35100.c:366-403 with line 375 reading into a second variable: the word
\* decoded is the one of the first status read
get_security_mode_first_word(c) ==
    UNION {
      { IF c2.rc # 0 THEN Leave([c2 EXCEPT !.rc = SECURITY_UNKNOWN])
        ELSE LET extracted_security == FIELD_GET_SEC(c1.word)
             IN  IF extracted_security \in {SECURITY_FULL_ACCESS,
                                            SECURITY_UNSEALED, SECURITY_SEALED}
                 THEN Leave([Assign(c2, extracted_security, c1.last_status)
                               EXCEPT !.rc = 0])
                 ELSE Leave([c2 EXCEPT !.rc = SECURITY_UNKNOWN])
      : c2 \in bq35100_get_status(c1) }
    : c1 \in bq35100_get_status(c) }

\* bq35100.c:366-403 with the default case at 395-397 storing
\* SECURITY_UNKNOWN into *current_security before it returns
get_security_mode_stores_unknown(c) ==
    UNION {
      { IF c2.rc # 0 THEN Leave([c2 EXCEPT !.rc = SECURITY_UNKNOWN])
        ELSE LET extracted_security == FIELD_GET_SEC(c2.word)
             IN  IF extracted_security \in {SECURITY_FULL_ACCESS,
                                            SECURITY_UNSEALED, SECURITY_SEALED}
                 THEN Leave([Assign(c2, extracted_security, c2.last_status)
                               EXCEPT !.rc = 0])
                 ELSE Leave([Assign(c2, SECURITY_UNKNOWN, c2.last_status)
                               EXCEPT !.rc = SECURITY_UNKNOWN])
      : c2 \in bq35100_get_status(c1) }
    : c1 \in bq35100_get_status(c) }

\* bq35100.c:366-403; c.mode is *current_security (always &g_security_mode)
bq35100_get_security_mode(c) ==
    UNION {
      { IF c2.rc # 0 THEN Leave([c2 EXCEPT !.rc = SECURITY_UNKNOWN])
        ELSE LET extracted_security == FIELD_GET_SEC(c2.word)
             IN  IF extracted_security \in {SECURITY_FULL_ACCESS,
                                            SECURITY_UNSEALED, SECURITY_SEALED}
                 THEN Leave([Assign(c2, extracted_security, c2.last_status)
                               EXCEPT !.rc = 0])
                 ELSE Leave([c2 EXCEPT !.rc = SECURITY_UNKNOWN])
      : c2 \in bq35100_get_status(c1) }
    : c1 \in bq35100_get_status(c) }

-----------------------------------------------------------------------------
(* Security state machine and extended-memory protocol                     *)

\* (char)b for a byte b, plain char being signed or not in this build
CharOf(sgn, b) == IF sgn /\ b >= 128 THEN b - 256 ELSE b

Min(a, b) == IF a < b THEN a ELSE b

RECURSIVE bq35100_set_security_mode(_, _)
RECURSIVE set_security_mode_loop(_, _, _, _)
RECURSIVE bq35100_read_extended_data(_, _, _, _)

\* bq35100.c:279-306 with line 304 copying from buffer instead of
\* buffer + 2: the echoed address is delivered as data
read_extended_verify_from_echo(c, address, len) ==
    LET buffer == c.buf
        L      == buffer[36]
        n      == L - 2
        matches ==
            IF n >= 0 /\ n <= BQ35100_MAC_COMPLETE_LEN
            THEN { buffer[35] = bq35100_compute_checksum(buffer, n) }
            ELSE BOOLEAN
        length_read == IF L - 4 < 0 THEN len ELSE Min(L - 4, len)
    IN
    IF buffer[1] # CharOf(c.sgn, address % 256)
       \/ buffer[2] # CharOf(c.sgn, (address \div 256) % 256)
    THEN { Leave([c EXCEPT !.rc = -EINVAL]) }
    ELSE IF n < 0
    THEN { Leave([c EXCEPT !.fault = "hang"]) }
    ELSE { IF ~m
           THEN Leave([c EXCEPT !.rc = -EINVAL,
                          !.fault = IF n > BQ35100_MAC_COMPLETE_LEN THEN "oob" ELSE @])
           ELSE Leave([c EXCEPT !.data = [i \in 1..Len(@) |->
                                      IF i <= length_read THEN buffer[i] ELSE @[i]],
                          !.copied = length_read,
                          !.fault = IF n > BQ35100_MAC_COMPLETE_LEN THEN "oob" ELSE @])
         : m \in matches }

\* bq35100.c:279-306: verification of the frame in c.buf and copy to the
\* caller's buffer c.data; c.rc is result
read_extended_verify(c, address, len) ==
    LET buffer == c.buf
        L      == buffer[36]
        n      == L - 2          \* length passed to compute_checksum (size_t)
        matches ==
            IF n >= 0 /\ n <= BQ35100_MAC_COMPLETE_LEN
            THEN { buffer[35] = bq35100_compute_checksum(buffer, n) }
            ELSE BOOLEAN         \* the sum runs over bytes past the buffer
        \* buffer[35] - 4 as size_t, clamped to len
        length_read == IF L - 4 < 0 THEN len ELSE Min(L - 4, len)
    IN
    IF buffer[1] # CharOf(c.sgn, address % 256)
       \/ buffer[2] # CharOf(c.sgn, (address \div 256) % 256)
    THEN { Leave([c EXCEPT !.rc = -EINVAL]) }
    ELSE IF n < 0
    THEN { Leave([c EXCEPT !.fault = "hang"]) }  \* x <= length for every uint8_t x
    ELSE { IF ~m
           THEN Leave([c EXCEPT !.rc = -EINVAL,
                          !.fault = IF n > BQ35100_MAC_COMPLETE_LEN THEN "oob" ELSE @])
           ELSE Leave([c EXCEPT !.data = [i \in 1..Len(@) |->
                                      IF i <= length_read THEN buffer[2 + i] ELSE @[i]],
                          !.copied = length_read,
                          !.fault = IF n > BQ35100_MAC_COMPLETE_LEN THEN "oob" ELSE @])
         : m \in matches }

\* bq35100.c:265-306: the transfer part, up to the END label
read_extended_transfer(c, address, len) ==
    UNION { IF c1.rc # 0 THEN { [c1 EXCEPT !.rc = -EINVAL] } ELSE
      UNION {
        UNION { read_extended_verify(c2, address, len)
              : c2 \in bq35100_read(
                         [c1 EXCEPT !.buf = sys_put_le16(address) \o SubSeq(g, 3, Len(g))],
                         <<BQ35100_REG_MAC>>, BQ35100_MAC_COMPLETE_LEN) }
      : g \in UninitBytes(BQ35100_MAC_COMPLETE_LEN) }
    : c1 \in bq35100_send_data(c, BQ35100_REG_MAC, sys_put_le16(address)) }

\* bq35100.c:308-314: END label of bq35100_read_extended_data
read_extended_end(c, prev_security_mode) ==
    IF c.fault = "hang" THEN {c}
    ELSE IF prev_security_mode # c.mode
    THEN bq35100_set_security_mode(c, prev_security_mode)
    ELSE {c}

\* bq35100.c:237-315 without the range test of lines 252-255: any address
\* is sent to the device
read_extended_data_any_address(c, address, data, len) ==
    LET prev_security_mode == c.mode
        c0 == [c EXCEPT !.data = data, !.copied = 0, !.rc = 0]
    IN
    IF c.mode = SECURITY_UNKNOWN THEN { [c0 EXCEPT !.rc = -EINVAL] }
    ELSE UNION {
           IF c1.rc # 0 THEN { [c1 EXCEPT !.rc = -EINVAL] }
           ELSE UNION { read_extended_end(c2, prev_security_mode)
                      : c2 \in read_extended_transfer(c1, address, len) }
         : c1 \in (IF c.mode = SECURITY_SEALED
                   THEN bq35100_set_security_mode(c0, SECURITY_UNSEALED)
                   ELSE {c0}) }

\* bq35100.c:237-315; data is the caller's buffer on entry, c.data on exit
bq35100_read_extended_data(c, address, data, len) ==
    LET prev_security_mode == c.mode
        c0 == [c EXCEPT !.data = data, !.copied = 0, !.rc = 0]
    IN
    IF c.mode = SECURITY_UNKNOWN THEN { [c0 EXCEPT !.rc = -EINVAL] }
    ELSE IF address < 16384 \/ address > 17407 THEN { [c0 EXCEPT !.rc = -EINVAL] }
    ELSE UNION {
           IF c1.rc # 0 THEN { [c1 EXCEPT !.rc = -EINVAL] }
           ELSE UNION { read_extended_end(c2, prev_security_mode)
                      : c2 \in read_extended_transfer(c1, address, len) }
         : c1 \in (IF c.mode = SECURITY_SEALED
                   THEN bq35100_set_security_mode(c0, SECURITY_UNSEALED)
                   ELSE {c0}) }

\* bq35100.c:436-475: case SECURITY_FULL_ACCESS, buffer[0] = BQ35100_REG_MAC
\* and buffer[1..3] uninitialised on entry
set_security_full_access(c) ==
    UNION { IF c1.rc # 0 THEN {c1} ELSE
      UNION {
        UNION { IF c2.fault = "hang" \/ c2.rc # 0 THEN {c2} ELSE
          LET buffer == c2.data
              \* full_access_codes = (buffer[0] << 24) + (buffer[1] << 16)
              \*                   + (buffer[2] << 8) + buffer[3], as uint32_t:
              \* low24 is the sum of the last three terms, codes_b3 the top byte
              low24 == CharOf(c2.sgn, buffer[2]) * 65536
                       + CharOf(c2.sgn, buffer[3]) * 256
                       + CharOf(c2.sgn, buffer[4])
              codes_b3 == (CharOf(c2.sgn, buffer[1]) + (low24 \div 16777216)) % 256
              codes_b2 == (low24 \div 65536) % 256
              codes_b1 == (low24 \div 256) % 256
              codes_b0 == low24 % 256
          IN
          UNION { IF c3.rc # 0 THEN {c3}
                  ELSE bq35100_write(c3, << buffer[1], codes_b0, codes_b1 >>)
                : c3 \in bq35100_write(c2, << buffer[1], codes_b2, codes_b3 >>) }
        : c2 \in bq35100_read_extended_data(
                   c1, BQ35100_FLASH_FULL_ACCESS_CODES,
                   <<BQ35100_REG_MAC>> \o SubSeq(g, 2, 4), 4) }
      : g \in UninitBytes(4) }
    : c1 \in (IF c.mode = SECURITY_SEALED
              THEN bq35100_set_security_mode(c, SECURITY_UNSEALED)
              ELSE { [c EXCEPT !.rc = 0] }) }

\* bq35100.c:487-510: case SECURITY_UNSEALED without lines 479-485, the key
\* sequence is sent from whatever mode is tracked
set_security_unsealed_direct(c) ==
    UNION { IF c2.rc # 0 THEN {c2}
            ELSE bq35100_write(k_sleep(c2, BQ35100_FLASH_WRITE_DELAY),
                               << BQ35100_REG_CONTROL_STATUS,
                                  BQ35100_DEFAULT_SEAL_CODES % 256,
                                  (BQ35100_DEFAULT_SEAL_CODES \div 256) % 256 >>)
          : c2 \in bq35100_write(c,
                               << BQ35100_REG_CONTROL_STATUS,
                                  (BQ35100_DEFAULT_SEAL_CODES \div 65536) % 256,
                                  (BQ35100_DEFAULT_SEAL_CODES \div 16777216) % 256 >>) }

\* bq35100.c:477-510: case SECURITY_UNSEALED
set_security_unsealed(c) ==
    UNION { IF c1.rc # 0 THEN {c1} ELSE
      UNION { IF c2.rc # 0 THEN {c2}
              ELSE bq35100_write(k_sleep(c2, BQ35100_FLASH_WRITE_DELAY),
                                 << BQ35100_REG_CONTROL_STATUS,
                                    BQ35100_DEFAULT_SEAL_CODES % 256,
                                    (BQ35100_DEFAULT_SEAL_CODES \div 256) % 256 >>)
            : c2 \in bq35100_write(c1,
                                 << BQ35100_REG_CONTROL_STATUS,
                                    (BQ35100_DEFAULT_SEAL_CODES \div 65536) % 256,
                                    (BQ35100_DEFAULT_SEAL_CODES \div 16777216) % 256 >>) }
    : c1 \in (IF c.mode = SECURITY_FULL_ACCESS
              THEN bq35100_set_security_mode(c, SECURITY_SEALED)
              ELSE { [c EXCEPT !.rc = 0] }) }

\* bq35100.c:422-533 without the comparison of lines 526-532: the loop goes
\* on with the result of bq35100_get_security_mode
RECURSIVE set_security_mode_loop_unverified(_, _, _, _)
set_security_mode_loop_unverified(c, i, result, new_security) ==
    IF ~(i < CONFIG_BQ35100_MAX_RETRIES /\ result # 0)
    THEN { [c EXCEPT !.rc = result] }
    ELSE UNION {
           IF c1.fault = "hang" \/ c1.rc # 0 THEN {c1}
           ELSE UNION {
                  IF c2.rc # 0 THEN {c2}
                  ELSE set_security_mode_loop_unverified(c2, i + 1, c2.rc,
                                                         new_security)
                : c2 \in bq35100_get_security_mode(c1) }
         : c1 \in (CASE new_security = SECURITY_SEALED ->
                          bq35100_send_cntl(c, BQ35100_MAC_CMD_SEALED)
                     [] new_security = SECURITY_FULL_ACCESS ->
                          set_security_full_access(c)
                     [] new_security = SECURITY_UNSEALED ->
                          set_security_unsealed(c)
                     [] OTHER -> { [c EXCEPT !.rc = 0] }) }

\* bq35100.c:422-533 with line 531 keeping the failure in result instead
\* of returning it on the first pass for the target Sealed: the loop sends
\* the SEALED opcode a second time
RECURSIVE set_security_mode_loop_retrying(_, _, _, _)
set_security_mode_loop_retrying(c, i, result, new_security) ==
    IF ~(i < CONFIG_BQ35100_MAX_RETRIES /\ result # 0)
    THEN { [c EXCEPT !.rc = result] }
    ELSE UNION {
           IF c1.fault = "hang" \/ c1.rc # 0 THEN {c1}
           ELSE UNION {
                  IF c2.rc # 0 THEN {c2}
                  ELSE IF c2.mode # new_security
                          /\ (new_security # SECURITY_SEALED \/ i > 0)
                  THEN { [c2 EXCEPT !.rc = -EIO] }
                  ELSE set_security_mode_loop_retrying(
                         c2, i + 1,
                         IF c2.mode = new_security THEN c2.rc ELSE -EIO,
                         new_security)
                : c2 \in bq35100_get_security_mode(c1) }
         : c1 \in (CASE new_security = SECURITY_SEALED ->
                          bq35100_send_cntl(c, BQ35100_MAC_CMD_SEALED)
                     [] new_security = SECURITY_FULL_ACCESS ->
                          set_security_full_access(c)
                     [] new_security = SECURITY_UNSEALED ->
                          set_security_unsealed(c)
                     [] OTHER -> { [c EXCEPT !.rc = 0] }) }

\* bq35100.c:422-533: the loop, entered with counter i and result
set_security_mode_loop(c, i, result, new_security) ==
    IF ~(i < CONFIG_BQ35100_MAX_RETRIES /\ result # 0)
    THEN { [c EXCEPT !.rc = result] }
    ELSE UNION {
           IF c1.fault = "hang" \/ c1.rc # 0 THEN {c1}      \* return result
           ELSE UNION {
                  \* result = bq35100_get_security_mode(dev, &g_security_mode)
                  IF c2.rc # 0 THEN {c2}
                  ELSE IF c2.mode = new_security
                  THEN set_security_mode_loop(c2, i + 1, c2.rc, new_security)
                  ELSE { [c2 EXCEPT !.rc = -EIO] }
                : c2 \in bq35100_get_security_mode(c1) }
         : c1 \in (CASE new_security = SECURITY_SEALED ->
                          bq35100_send_cntl(c, BQ35100_MAC_CMD_SEALED)
                     [] new_security = SECURITY_FULL_ACCESS ->
                          set_security_full_access(c)
                     [] new_security = SECURITY_UNSEALED ->
                          set_security_unsealed(c)
                     [] OTHER -> { [c EXCEPT !.rc = 0] }) }      \* default: break

\* bq35100.c:405-535 without the same-mode test of lines 410-412
set_security_mode_always(c, new_security) ==
    IF new_security = SECURITY_UNKNOWN THEN { [c EXCEPT !.rc = -EINVAL] }
    ELSE set_security_mode_loop(c, 0, -EINVAL, new_security)

\* bq35100.c:405-535
bq35100_set_security_mode(c, new_security) ==
    IF new_security = c.mode THEN { [c EXCEPT !.rc = 0] }
    ELSE IF new_security = SECURITY_UNKNOWN THEN { [c EXCEPT !.rc = -EINVAL] }
    ELSE set_security_mode_loop(c, 0, -EINVAL, new_security)

\* bq35100.c:185-226 without the goto of lines 194-197: after a frame
\* write that failed the checksum/length pair is written all the same
write_extended_transfer_no_abort(c, address, data, len) ==
    LET frame == <<BQ35100_REG_MAC>> \o sys_put_le16(address) \o data
        sum   == bq35100_compute_checksum(SubSeq(frame, 2, len + 3), len + 2)
    IN
    UNION {
      UNION { IF c2.rc # 0 THEN {c2} ELSE
        UNION {
          { Leave(c3)
          : c3 \in bq35100_get_status(
                     [k_sleep(c2, BQ35100_FLASH_WRITE_DELAY) EXCEPT !.word = a]) }
        : a \in Uninit16 }
      : c2 \in bq35100_write(k_sleep(c1, BQ35100_FLASH_WRITE_DELAY),
                             << BQ35100_REG_MAC_DATA_SUM, sum, (len + 4) % 256 >>) }
    : c1 \in bq35100_write(c, SubSeq(frame, 1, 3 + len)) }

\* bq35100.c:185-226: the transfer part, up to the END label
write_extended_transfer(c, address, data, len) ==
    LET frame == <<BQ35100_REG_MAC>> \o sys_put_le16(address) \o data
        sum   == bq35100_compute_checksum(SubSeq(frame, 2, len + 3), len + 2)
    IN
    UNION { IF c1.rc # 0 THEN {c1} ELSE
      UNION { IF c2.rc # 0 THEN {c2} ELSE
        UNION {
          { IF c3.rc # 0 THEN Leave(c3)
            ELSE IF BitAnd(BIT(15), c3.word) # 0 THEN Leave(c3) \* goto END, result = 0
            ELSE Leave(c3)
          : c3 \in bq35100_get_status(
                     [k_sleep(c2, BQ35100_FLASH_WRITE_DELAY) EXCEPT !.word = a]) }
        : a \in Uninit16 }
      : c2 \in bq35100_write(k_sleep(c1, BQ35100_FLASH_WRITE_DELAY),
                             << BQ35100_REG_MAC_DATA_SUM, sum, (len + 4) % 256 >>) }
    : c1 \in bq35100_write(c, SubSeq(frame, 1, 3 + len)) }

\* bq35100.c:228-234 without the restoration of lines 230-232: the call
\* returns the result of the transfer and leaves the mode it reached
write_extended_end_no_restore(c, prev_security_mode) == {c}

\* bq35100.c:228-234 with the value of bq35100_set_security_mode at line
\* 231 dropped: the call returns the result of the transfer
write_extended_end_swallowed(c, prev_security_mode) ==
    IF prev_security_mode # c.mode
    THEN { [c2 EXCEPT !.rc = c.rc]
         : c2 \in bq35100_set_security_mode(c, prev_security_mode) }
    ELSE {c}

\* bq35100.c:228-234: END label of bq35100_write_extended_data
write_extended_end(c, prev_security_mode) ==
    IF prev_security_mode # c.mode
    THEN bq35100_set_security_mode(c, prev_security_mode)
    ELSE {c}

\* bq35100.c:158-235
bq35100_write_extended_data(c, address, data, len) ==
    LET prev_security_mode == c.mode
        c0 == [c EXCEPT !.rc = 0]
    IN
    IF c.mode = SECURITY_UNKNOWN THEN { [c0 EXCEPT !.rc = 0] }       \* return false
    ELSE IF address < 16384 \/ address > 17407 \/ len < 1 \/ len > 32
    THEN { [c0 EXCEPT !.rc = 0] }                                    \* return false
    ELSE UNION {
           IF c1.rc # 0 THEN { [c1 EXCEPT !.rc = -EINVAL] }
           ELSE UNION { write_extended_end(c2, prev_security_mode)
                      : c2 \in write_extended_transfer(c1, address, data, len) }
         : c1 \in (IF c.mode = SECURITY_SEALED
                   THEN bq35100_set_security_mode(c0, SECURITY_UNSEALED)
                   ELSE {c0}) }

-----------------------------------------------------------------------------
(* Property engine                                                         *)

\* bq35100.c:537-553; c.word is *type
bq35100_get_device_type(c) ==
    bq35100_get_cntl(c, BQ35100_MAC_CMD_DEVICETYPE)

\* bq35100.c:555-563
bq35100_set_design_capacity(c, new_design_capacity) ==
    bq35100_write_extended_data(c, BQ35100_FLASH_CMD_SET_NEW_CAPACITY,
                                sys_put_be16(new_design_capacity), 2)

\* bq35100.c:565-582
bq35100_start_gauge(c) ==
    UNION { IF c1.rc # 0 THEN {c1}
            ELSE { IF c2.rc # 0 THEN c2 ELSE [c2 EXCEPT !.rc = 0]
                 : c2 \in bq35100_wait_for_status(c1, BIT(0), BIT(0), 500) }
          : c1 \in bq35100_send_cntl(c, BQ35100_MAC_CMD_GAUGE_START) }

\* bq35100.c:584-601
bq35100_stop_gauge(c) ==
    UNION { IF c1.rc # 0 THEN {c1}
            ELSE { IF c2.rc # 0 THEN c2 ELSE [c2 EXCEPT !.rc = 0]
                 : c2 \in bq35100_wait_for_status(c1, 0, BIT(0), 500) }
          : c1 \in bq35100_send_cntl(c, BQ35100_MAC_CMD_GAUGE_STOP) }

\* bq35100.c:603-624
bq35100_set_new_battery(c, new_design_capacity) ==
    UNION { IF c1.rc # 0 THEN {c1}
            ELSE { IF c2.rc # 0 THEN c2
                   ELSE [k_sleep(c2, BQ35100_NEW_BATTERY_DELAY) EXCEPT !.rc = 0]
                 : c2 \in bq35100_set_design_capacity(
                            k_sleep(c1, BQ35100_FLASH_WRITE_DELAY * 2),
                            new_design_capacity) }
          : c1 \in bq35100_send_cntl(c, BQ35100_MAC_CMD_NEW_BATTERY) }

\* bq35100.c:626-645
bq35100_reset(c) ==
    UNION { IF c1.rc # 0 THEN { [c1 EXCEPT !.rc = -EINVAL] }
            ELSE { IF c2.rc # 0 THEN [c2 EXCEPT !.rc = -EINVAL]
                   ELSE [c2 EXCEPT !.rc = 1]                  \* return true
                 : c2 \in bq35100_send_cntl(c1, BQ35100_MAC_CMD_RESET) }
          : c1 \in (IF c.mode = SECURITY_SEALED
                    THEN bq35100_set_security_mode(c, SECURITY_UNSEALED)
                    ELSE { [c EXCEPT !.rc = 0] }) }

\* (int32_t)sys_get_le32(b): the two's complement value of four bytes
sys_get_le32_signed(b) ==
    b[1] + 256 * b[2] + 65536 * b[3]
    + 16777216 * (IF b[4] >= 128 THEN b[4] - 256 ELSE b[4])

\* 64-bit values are kept as <<k, r>>, meaning k * 1000 + r with r in 0..999.
Wide(x) == << x \div 1000, x % 1000 >>
WideAdd(v, w) == << v[1] + w[1] + ((v[2] + w[2]) \div 1000), (v[2] + w[2]) % 1000 >>
WideLess(v, w) == v[1] < w[1] \/ (v[1] = w[1] /\ v[2] < w[2])
WideInt(v) == v[1] * 1000 + v[2]
\* (v * 100) / (d * 1000) for v >= 0 and d > 0, C integer division
WideScaledDiv(v, d) == (v[1] * 100 + ((v[2] * 100) \div 1000)) \div d

\* CLAMP(v, lo, hi)
CLAMP(v, lo, hi) == IF v < lo THEN lo ELSE IF v > hi THEN hi ELSE v

\* bq35100.c:647-665 with the sum of line 654 taken over the design
\* capacity in mAh instead of its conversion of line 650
remaining_capacity_unit_slip(design_capacity, accumulated_capacity) ==
    LET design_capacity_uah == << design_capacity, 0 >>
        remaining_capacity  == WideAdd(Wide(design_capacity),
                                       Wide(accumulated_capacity))
    IN  IF WideLess(remaining_capacity, Wide(0)) THEN 0
        ELSE IF WideLess(design_capacity_uah, remaining_capacity)
        THEN WideInt(design_capacity_uah)
        ELSE WideInt(remaining_capacity)

\* bq35100.c:647-665; the int64_t values are kept wide
calculate_remaining_capacity(design_capacity, accumulated_capacity) ==
    LET design_capacity_uah == << design_capacity, 0 >>
        remaining_capacity  == WideAdd(design_capacity_uah, Wide(accumulated_capacity))
    IN  IF WideLess(remaining_capacity, Wide(0)) THEN 0
        ELSE IF WideLess(design_capacity_uah, remaining_capacity)
        THEN WideInt(design_capacity_uah)
        ELSE WideInt(remaining_capacity)

\* bq35100.c:667-721 with the quotient of line 709 taken before the
\* multiplication by 100: (remaining / (design * 1000)) * 100
process_prop_soc_truncated(c, prop, buffer) ==
    CASE prop = "VOLTAGE" ->
           [c EXCEPT !.rc = 0, !.word = sys_get_le16(buffer) * 1000]
      [] prop = "CURRENT" ->
           [c EXCEPT !.rc = 0, !.word = sys_get_le16(buffer) * 1000]
      [] prop = "DESIGN_CAPACITY" ->
           [c EXCEPT !.rc = 0, !.word = sys_get_le16(buffer)]
      [] prop \in {"ABSOLUTE_STATE_OF_CHARGE", "REMAINING_CAPACITY"} ->
           LET accumulated == sys_get_le32_signed(buffer)
               design      == sys_get_le16(SubSeq(buffer, 5, 6))
               remaining   == calculate_remaining_capacity(design, accumulated)
           IN  IF prop = "REMAINING_CAPACITY"
               THEN [c EXCEPT !.rc = 0, !.word = remaining]
               ELSE IF design <= 0
               THEN [c EXCEPT !.rc = 0, !.word = 0]
               ELSE [c EXCEPT !.rc = 0,
                              !.word = CLAMP((remaining \div (design * 1000)) * 100,
                                             0, 100)]
      [] OTHER -> [c EXCEPT !.rc = -ENOTSUP]

\* bq35100.c:667-721 with the factor 1000U of line 681 left out: the
\* voltage is returned in the device's unit
process_prop_voltage_unscaled(c, prop, buffer) ==
    CASE prop = "VOLTAGE" ->
           [c EXCEPT !.rc = 0, !.word = sys_get_le16(buffer)]
      [] prop = "CURRENT" ->
           [c EXCEPT !.rc = 0, !.word = sys_get_le16(buffer) * 1000]
      [] prop = "DESIGN_CAPACITY" ->
           [c EXCEPT !.rc = 0, !.word = sys_get_le16(buffer)]
      [] prop \in {"ABSOLUTE_STATE_OF_CHARGE", "REMAINING_CAPACITY"} ->
           LET accumulated == sys_get_le32_signed(buffer)
               design      == sys_get_le16(SubSeq(buffer, 5, 6))
               remaining   == calculate_remaining_capacity(design, accumulated)
           IN  IF prop = "REMAINING_CAPACITY"
               THEN [c EXCEPT !.rc = 0, !.word = remaining]
               ELSE IF design <= 0
               THEN [c EXCEPT !.rc = 0, !.word = 0]
               ELSE [c EXCEPT !.rc = 0,
                              !.word = CLAMP(WideScaledDiv(Wide(remaining), design),
                                             0, 100)]
      [] OTHER -> [c EXCEPT !.rc = -ENOTSUP]

\* bq35100.c:667-721; the value stored in *val is c.word
bq35100_process_prop(c, prop, buffer) ==
    CASE prop = "VOLTAGE" ->
           \* (int32_t)(temp_val * 1000U): the product is below 2^31
           [c EXCEPT !.rc = 0, !.word = sys_get_le16(buffer) * 1000]
      [] prop = "CURRENT" ->
           \* (int32_t)(temp_val * 1000U): the product is below 2^31
           [c EXCEPT !.rc = 0, !.word = sys_get_le16(buffer) * 1000]
      [] prop = "DESIGN_CAPACITY" ->
           [c EXCEPT !.rc = 0, !.word = sys_get_le16(buffer)]
      [] prop \in {"ABSOLUTE_STATE_OF_CHARGE", "REMAINING_CAPACITY"} ->
           LET accumulated == sys_get_le32_signed(buffer)
               design      == sys_get_le16(SubSeq(buffer, 5, 6))
               remaining   == calculate_remaining_capacity(design, accumulated)
           IN  IF prop = "REMAINING_CAPACITY"
               THEN [c EXCEPT !.rc = 0, !.word = remaining]
               ELSE IF design <= 0
               THEN [c EXCEPT !.rc = 0, !.word = 0]
               ELSE [c EXCEPT !.rc = 0,
                              !.word = CLAMP(WideScaledDiv(Wide(remaining), design),
                                             0, 100)]
      [] OTHER -> [c EXCEPT !.rc = -ENOTSUP]

\* bq35100.c:723-747
bq35100_get_register(prop) ==
    CASE prop = "VOLTAGE" -> BQ35100_REG_VOLTAGE
      [] prop = "CURRENT" -> BQ35100_REG_CURRENT
      [] prop = "DESIGN_CAPACITY" -> BQ35100_REG_DESIGN_CAPACITY
      [] prop \in {"REMAINING_CAPACITY", "ABSOLUTE_STATE_OF_CHARGE"} ->
           BQ35100_REG_ACCUMULATED_CAPACITY
      [] OTHER -> 0

\* bq35100.c:749-782 with the test of line 771 dropped: the design capacity
\* is read whether or not the read of the accumulated capacity succeeded
read_registers_unconditional(c, prop) ==
    LET address == bq35100_get_register(prop) % 256
    IN
    CASE prop \in {"VOLTAGE", "CURRENT", "DESIGN_CAPACITY"} ->
           bq35100_get_data(c, address, 2)
      [] prop \in {"REMAINING_CAPACITY", "ABSOLUTE_STATE_OF_CHARGE"} ->
           UNION { { IF c2.rc # 0 \/ c1.rc # 0 THEN [c2 EXCEPT !.rc = -EIO]
                     ELSE [c2 EXCEPT !.buf = c1.buf \o c2.buf]
                   : c2 \in bq35100_get_data(c1, BQ35100_REG_DESIGN_CAPACITY, 2) }
                 : c1 \in bq35100_get_data(c, BQ35100_REG_ACCUMULATED_CAPACITY, 4) }
      [] OTHER -> { [c EXCEPT !.rc = -ENOTSUP] }

\* bq35100.c:749-782; the bytes read end up in c.buf
bq35100_read_registers(c, prop) ==
    LET address == bq35100_get_register(prop) % 256
    IN
    CASE prop \in {"VOLTAGE", "CURRENT", "DESIGN_CAPACITY"} ->
           bq35100_get_data(c, address, 2)
      [] prop \in {"REMAINING_CAPACITY", "ABSOLUTE_STATE_OF_CHARGE"} ->
           UNION { IF c1.rc # 0 THEN {c1}
                   ELSE { IF c2.rc # 0 THEN c2
                          ELSE [c2 EXCEPT !.buf = c1.buf \o c2.buf]
                        : c2 \in bq35100_get_data(c1, BQ35100_REG_DESIGN_CAPACITY, 2) }
                 : c1 \in bq35100_get_data(c, BQ35100_REG_ACCUMULATED_CAPACITY, 4) }
      [] OTHER -> { [c EXCEPT !.rc = -ENOTSUP] }

\* bq35100.c:784-800
bq35100_get_prop(c, prop) ==
    { IF c1.rc = 0
      THEN [bq35100_process_prop(c1, prop, c1.buf) EXCEPT !.buf = <<>>]
      ELSE Leave(c1)
    : c1 \in bq35100_read_registers(c, prop) }

\* bq35100.c:802-833; val.design_cap is passed on as a uint16_t
bq35100_set_prop(c, prop, val) ==
    CASE prop = "DESIGN_CAPACITY" -> bq35100_set_design_capacity(c, val % 65536)
      [] prop = "BQ35100_NEW_BATTERY" -> bq35100_set_new_battery(c, val % 65536)
      [] prop = "BQ35100_RESET" -> bq35100_reset(c)
      [] prop = "BQ35100_START" -> bq35100_start_gauge(c)
      [] prop = "BQ35100_STOP" -> bq35100_stop_gauge(c)
      [] OTHER -> { [c EXCEPT !.rc = -ENOTSUP] }

\* bq35100.c:868-902: after the device type matched; status is the word
\* read at line 850, by bus event from
init_security_and_wait(c, status, from) ==
    LET extracted_security == FIELD_GET_SEC(status)
        extracted_initcomp == BitAnd(BIT(7), status)
    IN
    IF extracted_security \notin {SECURITY_FULL_ACCESS, SECURITY_UNSEALED,
                                  SECURITY_SEALED}
    THEN { [c EXCEPT !.rc = -ENODEV] }
    ELSE LET c1 == Assign(c, extracted_security, from)
         IN  IF extracted_initcomp = 0
             THEN { IF c2.rc # 0 THEN [c2 EXCEPT !.rc = -ENODEV]
                    ELSE [c2 EXCEPT !.rc = 0]
                  : c2 \in bq35100_wait_for_status(c1, BIT(7), BIT(7), 300) }
             ELSE { [c1 EXCEPT !.rc = 0] }

\* bq35100.c:835-903 without the comparison of lines 862-866: any device
\* type is accepted
init_any_device_type(c, ready) ==
    IF ~ready THEN { [c EXCEPT !.rc = -ENODEV] }
    ELSE UNION { IF c1.rc # 0 THEN { Leave([c1 EXCEPT !.rc = -ENODEV]) } ELSE
           UNION { IF c2.rc # 0 THEN { Leave([c2 EXCEPT !.rc = -ENODEV]) }
                   ELSE init_security_and_wait(Leave(c2), c1.word, c1.last_status)
                 : c2 \in bq35100_get_device_type(c1) }
         : c1 \in bq35100_get_status(c) }

\* bq35100.c:835-903; ready is device_is_ready(cfg->i2c.bus)
bq35100_init(c, ready) ==
    IF ~ready THEN { [c EXCEPT !.rc = -ENODEV] }
    ELSE UNION { IF c1.rc # 0 THEN { Leave([c1 EXCEPT !.rc = -ENODEV]) } ELSE
           UNION { IF c2.rc # 0 THEN { Leave([c2 EXCEPT !.rc = -ENODEV]) }
                   ELSE IF c2.word # BQ35100_DEVICE_TYPE
                   THEN { Leave([c2 EXCEPT !.rc = -ENODEV]) }
                   ELSE init_security_and_wait(Leave(c2), c1.word, c1.last_status)
                 : c2 \in bq35100_get_device_type(c1) }
         : c1 \in bq35100_get_status(c) }

-----------------------------------------------------------------------------
(* Specification                                                           *)

\* fn: the function called; mode: the tracked security mode at its entry;
\* prop, a, b, data: its arguments
\* dev: the device instance the call is made on
NoCall == [fn |-> "none", mode |-> SECURITY_UNKNOWN, prop |-> "none",
           a |-> 0, b |-> 0, data |-> <<>>, dev |-> 0]
NoOut  == [val |-> 0, data |-> <<>>, copied |-> 0, fault |-> "none",
           assigned |-> <<>>]
\* fn, mode, a as in call; ret: the value the request returned
NoPrev == [fn |-> "none", mode |-> SECURITY_UNKNOWN, a |-> 0, ret |-> 0]

\* The callers that may run concurrently (threads that use the device)
Tasks == {"A", "B"}
\* pc: position in bq35100_write_extended_data; prev_security_mode, result:
\* its locals (bq35100.c:161, 165); seen: what other callers did while this
\* one was between its frame write and its checksum/length write
NoTask == [pc |-> "idle", prev_security_mode |-> SECURITY_UNKNOWN, result |-> 0,
           seen |-> {}]

\* The kernel has not run the device's init function yet (bq35100.c:920),
\* nothing is known about the device (bq35100.c:37).
Init ==
    /\ g_security_mode = SECURITY_UNKNOWN
    /\ char_is_signed \in BOOLEAN
    /\ init_done = FALSE
    /\ inst_done = {}
    /\ pc = "idle"
    /\ call = NoCall
    /\ ret = 0
    /\ trace = <<>>
    /\ out = NoOut
    /\ prev = NoPrev
    /\ task = [t \in Tasks |-> NoTask]
    /\ overlapped = FALSE

\* The context a call starts in.
Entry == Ctx(g_security_mode, char_is_signed)

\* A call cl ends with outcome c: it returns, or it never does.
Returns(cl, c) ==
    /\ pc' = IF c.fault = "hang" THEN "hung" ELSE "done"
    /\ call' = [cl EXCEPT !.mode = g_security_mode]
    /\ g_security_mode' = c.mode
    /\ ret' = c.rc
    /\ trace' = c.trace
    /\ out' = [val |-> c.word, data |-> c.data, copied |-> c.copied,
               fault |-> c.fault, assigned |-> c.assigned]
    /\ UNCHANGED <<char_is_signed, prev, task, overlapped>>

\* The caller has taken the result; the engine is ready for the next call.
Return ==
    /\ pc = "done"
    /\ pc' = "idle"
    /\ call' = NoCall
    /\ ret' = 0
    /\ trace' = <<>>
    /\ out' = NoOut
    /\ prev' = IF call.fn = "set_security_mode"
               THEN [fn |-> call.fn, mode |-> call.mode, a |-> call.a, ret |-> ret]
               ELSE NoPrev
    /\ UNCHANGED <<g_security_mode, char_is_signed, init_done, inst_done, task,
                   overlapped>>

\* Arguments the callers pass
GetProps  == {"VOLTAGE", "CURRENT", "DESIGN_CAPACITY", "REMAINING_CAPACITY",
              "ABSOLUTE_STATE_OF_CHARGE", "TEMPERATURE"}
GaugeProps   == {"BQ35100_START", "BQ35100_STOP", "VOLTAGE"}
BatteryProps == {"DESIGN_CAPACITY", "BQ35100_NEW_BATTERY", "BQ35100_RESET"}
SetValues == {2000}
WriteArgs == { <<16383, <<7>> >>, <<17408, <<7>> >>, <<16384, <<>> >>,
               <<16384, [i \in 1..33 |-> i]>>, <<16384, <<7>> >>,
               <<17407, [i \in 1..32 |-> i]>> }
CallerFill == 170   \* what the caller's buffer holds before a read
ReadArgs  == { <<16383, 4>>, <<17408, 4>>, <<16384, 2>>, <<16384, 6>>,
               <<BQ35100_FLASH_FULL_ACCESS_CODES, 4>> }

\* Byte sequences handed to bq35100_compute_checksum: every length up to the
\* 34 bytes of a full frame (2 address bytes and 32 data bytes), constant and
\* varying contents, sums that wrap around 256 and sums that do not.
MaxChecksumLen == 34
ChecksumInputs ==
    { [i \in 1..n |-> (v + i * k) % 256]
      : n \in 0..MaxChecksumLen, v \in {0, 77, 255}, k \in {0, 1, 37} }

\* The kernel runs the init function once, at boot (bq35100.c:920).
CallInit ==
    /\ pc = "idle"
    /\ ~init_done
    /\ init_done' = TRUE
    /\ inst_done' = inst_done \cup {0}
    /\ \E ready \in BOOLEAN : \E c \in bq35100_init(Entry, ready) :
         Returns([NoCall EXCEPT !.fn = "init"], c)

\* fuel_gauge_get_prop (bq35100.c:906)
CallGetProp ==
    /\ pc = "idle"
    /\ UNCHANGED <<init_done, inst_done>>
    /\ \E prop \in GetProps : \E c \in bq35100_get_prop(Entry, prop) :
         Returns([NoCall EXCEPT !.fn = "get_prop", !.prop = prop], c)

\* fuel_gauge_set_prop (bq35100.c:907) with a gauge property
CallSetGauge ==
    /\ pc = "idle"
    /\ UNCHANGED <<init_done, inst_done>>
    /\ \E prop \in GaugeProps, val \in SetValues :
         \E c \in bq35100_set_prop(Entry, prop, val) :
            Returns([NoCall EXCEPT !.fn = "set_prop", !.prop = prop, !.a = val], c)

\* fuel_gauge_set_prop (bq35100.c:907) with a battery property
CallSetBattery ==
    /\ pc = "idle"
    /\ UNCHANGED <<init_done, inst_done>>
    /\ \E prop \in BatteryProps, val \in SetValues :
         \E c \in bq35100_set_prop(Entry, prop, val) :
            Returns([NoCall EXCEPT !.fn = "set_prop", !.prop = prop, !.a = val], c)

CallWaitForStatus ==
    /\ pc = "idle"
    /\ UNCHANGED <<init_done, inst_done>>
    /\ \E expected \in {0, BIT(0), BIT(7)}, mask \in {BIT(0), BIT(7)} :
         \E c \in bq35100_wait_for_status(Entry, expected, mask, 300) :
            Returns([NoCall EXCEPT !.fn = "wait_for_status", !.a = expected,
                                   !.b = mask], c)

CallSetSecurityMode ==
    /\ pc = "idle"
    /\ UNCHANGED <<init_done, inst_done>>
    /\ \E m \in 0..3 : \E c \in bq35100_set_security_mode(Entry, m) :
         Returns([NoCall EXCEPT !.fn = "set_security_mode", !.a = m], c)

CallWriteExtendedData ==
    /\ pc = "idle"
    /\ UNCHANGED <<init_done, inst_done>>
    /\ \E w \in WriteArgs :
         \E c \in bq35100_write_extended_data(Entry, w[1], w[2], Len(w[2])) :
            Returns([NoCall EXCEPT !.fn = "write_extended_data", !.a = w[1],
                                   !.data = w[2]], c)

CallReadExtendedData ==
    /\ pc = "idle"
    /\ UNCHANGED <<init_done, inst_done>>
    /\ \E r \in ReadArgs :
         LET data == [i \in 1..r[2] |-> CallerFill]
         IN  \E c \in bq35100_read_extended_data(Entry, r[1], data, r[2]) :
                Returns([NoCall EXCEPT !.fn = "read_extended_data", !.a = r[1],
                                       !.b = r[2], !.data = data], c)

\* The 36 bytes of the MAC block after a Write of data at address went
\* through: what the two write transactions of bq35100.c:188-208 put there
\* (address bytes and payload after the register byte 0x3E; checksum and
\* length after the register byte 0x60), the data bytes not written holding
\* pad.
StampedFrame(address, data, pad) ==
    LET sent == CHOOSE c \in write_extended_transfer(
                               Ctx(SECURITY_UNSEALED, FALSE), address, data,
                               Len(data)) :
                   Len(c.trace) = 6 /\ \A i \in 1..6 : c.trace[i].ok
        block == Tail(sent.trace[1].bytes)
        pair  == Tail(sent.trace[3].bytes)
    IN  [i \in 1..(BQ35100_MAC_DATA_LEN + 2) |->
           IF i <= Len(block) THEN block[i] ELSE pad] \o pair

\* Addresses, payloads and buffer sizes of the transfers: both ends of the
\* range, low bytes on both sides of 0x80, every payload length.
RoundTripAddrs == {16384, 16511, 16512, BQ35100_FLASH_FULL_ACCESS_CODES, 17407}
RoundTripPayloads ==
    { [i \in 1..n |-> (v + i * 37) % 256] : n \in 1..BQ35100_MAC_DATA_LEN,
                                             v \in {0, 200} }
RoundTripMaxLens == {1, 4, BQ35100_MAC_DATA_LEN}

\* The frame stamped by bq35100_write_extended_data (bq35100.c:188-208) is
\* what bq35100_read_extended_data reads back and verifies (279-306).
CallRoundTrip ==
    /\ pc = "idle"
    /\ UNCHANGED <<init_done, inst_done>>
    /\ \E address \in RoundTripAddrs, payload \in RoundTripPayloads,
          maxLen \in RoundTripMaxLens, pad \in {0, 255} :
         LET data == [i \in 1..maxLen |-> CallerFill]
             c0 == [Entry EXCEPT !.buf = StampedFrame(address, payload, pad),
                                 !.data = data]
         IN  \E c \in read_extended_verify(c0, address, maxLen) :
                Returns([NoCall EXCEPT !.fn = "round_trip", !.a = address,
                                       !.b = maxLen, !.data = payload], c)

\* bq35100_compute_checksum (bq35100.c:43) applied to a byte sequence; the
\* uint8_t it returns is out.val
CallComputeChecksum ==
    /\ pc = "idle"
    /\ UNCHANGED <<init_done, inst_done>>
    /\ \E B \in ChecksumInputs :
         Returns([NoCall EXCEPT !.fn = "compute_checksum", !.data = B],
                 [Entry EXCEPT !.word = bq35100_compute_checksum(B, Len(B))])

\* The control/status protocol and the register reads
NextGauge ==
    CallInit \/ CallGetProp \/ CallSetGauge \/ CallWaitForStatus \/ Return
SpecGauge == Init /\ [][NextGauge]_vars

\* The extended-memory protocol
NextMem == CallInit \/ CallWriteExtendedData \/ CallReadExtendedData \/ Return
SpecMem == Init /\ [][NextMem]_vars

\* The set operations that write the data flash or reset the device
NextBattery == CallInit \/ CallSetBattery \/ Return
SpecBattery == Init /\ [][NextBattery]_vars

\* The security state machine
NextSec == CallInit \/ CallSetSecurityMode \/ Return
SpecSec == Init /\ [][NextSec]_vars

\* The frame checksum
NextChecksum == CallComputeChecksum \/ Return
SpecChecksum == Init /\ [][NextChecksum]_vars

\* The Write and the Read sides of a transfer, without the bus between them
NextRoundTrip == CallRoundTrip \/ Return
SpecRoundTrip == Init /\ [][NextRoundTrip]_vars

\* The calls that a user of the driver and of its security state machine
\* makes over the life of the device: initialize, getProperty, setProperty,
\* SetMode
NextLifecycle ==
    \/ CallInit
    \/ CallGetProp
    \/ CallSetGauge
    \/ CallSetBattery
    \/ CallSetSecurityMode
    \/ Return
SpecLifecycle == Init /\ [][NextLifecycle]_vars

\* The device instances of the devicetree: bq35100.c:923 expands BQ35100_INIT
\* once per instance, each with its own config and bus (915-917) and all with
\* the init function and the API of this file (919-920).
Instances == {0, 1}

\* The security mode the driver holds for instance d: the file has one
\* variable, whatever the device a function is called with (bq35100.c:37).
security_mode_of(d) == g_security_mode

\* The kernel runs the init function for a further instance (bq35100.c:919).
CallInitInstance ==
    /\ pc = "idle"
    /\ UNCHANGED init_done
    /\ \E d \in Instances \ ({0} \cup inst_done) :
         /\ inst_done' = inst_done \cup {d}
         /\ \E ready \in BOOLEAN : \E c \in bq35100_init(Entry, ready) :
               Returns([NoCall EXCEPT !.fn = "init", !.dev = d], c)

\* bq35100_set_security_mode with the device of an instance
CallSetSecurityModeOn ==
    /\ pc = "idle"
    /\ UNCHANGED <<init_done, inst_done>>
    /\ \E d \in Instances, m \in 1..3 :
         \E c \in bq35100_set_security_mode(Entry, m) :
            Returns([NoCall EXCEPT !.fn = "set_security_mode", !.a = m,
                                   !.dev = d], c)

\* bq35100_write_extended_data with the device of an instance
CallWriteExtendedDataOn ==
    /\ pc = "idle"
    /\ UNCHANGED <<init_done, inst_done>>
    /\ \E d \in Instances :
         LET address == BQ35100_FLASH_CMD_SET_NEW_CAPACITY
             data    == sys_put_be16(2000)
         IN  \E c \in bq35100_write_extended_data(Entry, address, data, Len(data)) :
                Returns([NoCall EXCEPT !.fn = "write_extended_data", !.a = address,
                                       !.data = data, !.dev = d], c)

\* Two fuel gauges in one system: the kernel initializes both, the
\* application changes the mode of either and writes the extended memory of
\* either
NextInstances ==
    \/ CallInit
    \/ CallInitInstance
    \/ CallSetSecurityModeOn
    \/ CallWriteExtendedDataOn
    \/ Return
SpecInstances == Init /\ [][NextInstances]_vars

Next == NextGauge \/ NextMem \/ NextBattery \/ NextSec \/ NextChecksum
        \/ NextRoundTrip \/ NextLifecycle \/ NextInstances
Spec == Init /\ [][Next]_vars

-----------------------------------------------------------------------------
(* Concurrent callers                                                      *)

\* The driver takes no lock and its state is the file-scope g_security_mode
\* (bq35100.c:37).  Each caller of Tasks sets the design capacity once, which
\* runs bq35100_write_extended_data (bq35100.c:555-563, 158-235).  A caller
\* can be descheduled wherever it blocks: in a bus transaction or a sleep.
\* A step below is the code from one such point to a later one; the security
\* transitions inside a call are taken in one step.

\* Caller u is inside the driver.
InCall(u) == task[u].pc \notin {"idle", "done", "hung"}

\* What the outcome c of a piece of code started in the current state did
\* that other callers can notice: bus traffic, a change of the tracked mode.
Noticed(c) ==
    (IF c.trace # <<>> THEN {"bus"} ELSE {})
    \cup (IF c.mode # g_security_mode THEN {"mode"} ELSE {})

\* Caller t moves to the local state new and the code it ran ended as c.
TaskStep(t, new, c) ==
    /\ task' = [u \in Tasks |->
                  IF u = t THEN new
                  ELSE IF task[u].pc = "sum"
                  THEN [task[u] EXCEPT !.seen = @ \cup Noticed(c)]
                  ELSE task[u]]
    /\ g_security_mode' = c.mode
    /\ UNCHANGED <<char_is_signed, init_done, inst_done, pc, call, ret, trace, out,
                   prev>>

\* The arguments of bq35100_set_design_capacity (bq35100.c:555-563)
TaskAddress == BQ35100_FLASH_CMD_SET_NEW_CAPACITY
TaskData    == sys_put_be16(2000)

\* bq35100.c:158-183 with a lock taken at entry: a caller waits while
\* another caller is inside the driver
ConcBeginLocked(t) ==
    /\ pc = "idle" /\ init_done
    /\ task[t].pc = "idle"
    /\ \A u \in Tasks \ {t} : ~InCall(u)
    /\ overlapped' = (overlapped \/ \E u \in Tasks \ {t} : InCall(u))
    /\ LET prev_security_mode == g_security_mode
           me == [task[t] EXCEPT !.prev_security_mode = prev_security_mode,
                                 !.seen = {}]
       IN  IF g_security_mode = SECURITY_UNKNOWN
           THEN TaskStep(t, [me EXCEPT !.pc = "done", !.result = 0], Entry)
           ELSE IF g_security_mode = SECURITY_SEALED
           THEN \E c \in bq35100_set_security_mode(Entry, SECURITY_UNSEALED) :
                   TaskStep(t, IF c.rc # 0
                               THEN [me EXCEPT !.pc = "done", !.result = -EINVAL]
                               ELSE [me EXCEPT !.pc = "frame"], c)
           ELSE TaskStep(t, [me EXCEPT !.pc = "frame"], Entry)

\* bq35100.c:158-183: entry, the precondition tests and the implicit unseal
ConcBegin(t) ==
    /\ pc = "idle" /\ init_done
    /\ task[t].pc = "idle"
    /\ overlapped' = (overlapped \/ \E u \in Tasks \ {t} : InCall(u))
    /\ LET prev_security_mode == g_security_mode
           me == [task[t] EXCEPT !.prev_security_mode = prev_security_mode,
                                 !.seen = {}]
       IN  IF g_security_mode = SECURITY_UNKNOWN
           THEN TaskStep(t, [me EXCEPT !.pc = "done", !.result = 0], Entry)
           ELSE IF g_security_mode = SECURITY_SEALED
           THEN \E c \in bq35100_set_security_mode(Entry, SECURITY_UNSEALED) :
                   TaskStep(t, IF c.rc # 0
                               THEN [me EXCEPT !.pc = "done", !.result = -EINVAL]
                               ELSE [me EXCEPT !.pc = "frame"], c)
           ELSE TaskStep(t, [me EXCEPT !.pc = "frame"], Entry)

\* bq35100.c:185-197: the frame write, up to the delay that follows it
ConcFrameWrite(t) ==
    /\ task[t].pc = "frame"
    /\ UNCHANGED overlapped
    /\ \E c \in bq35100_write(Entry, <<BQ35100_REG_MAC>>
                                     \o sys_put_le16(TaskAddress) \o TaskData) :
          TaskStep(t, IF c.rc # 0
                      THEN [task[t] EXCEPT !.pc = "end", !.result = c.rc]
                      ELSE [task[t] EXCEPT !.pc = "sum", !.seen = {}], c)

\* bq35100.c:197-212: the delay ends, the checksum/length write, up to the
\* delay that follows it
ConcSumWrite(t) ==
    /\ task[t].pc = "sum"
    /\ UNCHANGED overlapped
    /\ LET sum == bq35100_compute_checksum(sys_put_le16(TaskAddress) \o TaskData,
                                           Len(TaskData) + 2)
       IN  \E c \in bq35100_write(k_sleep(Entry, BQ35100_FLASH_WRITE_DELAY),
                                  << BQ35100_REG_MAC_DATA_SUM, sum,
                                     (Len(TaskData) + 4) % 256 >>) :
              TaskStep(t, IF c.rc # 0
                          THEN [task[t] EXCEPT !.pc = "end", !.result = c.rc]
                          ELSE [task[t] EXCEPT !.pc = "status"], c)

\* bq35100.c:212-226: the delay ends, the status read-back
ConcStatus(t) ==
    /\ task[t].pc = "status"
    /\ UNCHANGED overlapped
    /\ \E a \in Uninit16 :
          \E c \in bq35100_get_status(
                     [k_sleep(Entry, BQ35100_FLASH_WRITE_DELAY) EXCEPT !.word = a]) :
             TaskStep(t, [task[t] EXCEPT !.pc = "end", !.result = c.rc], c)

\* bq35100.c:228-234: the END label and the return
ConcEnd(t) ==
    /\ task[t].pc = "end"
    /\ UNCHANGED overlapped
    /\ IF task[t].prev_security_mode # g_security_mode
       THEN \E c \in bq35100_set_security_mode(Entry, task[t].prev_security_mode) :
               TaskStep(t, [task[t] EXCEPT
                              !.pc = IF c.fault = "hang" THEN "hung" ELSE "done",
                              !.result = c.rc], c)
       ELSE TaskStep(t, [task[t] EXCEPT !.pc = "done"], Entry)

NextConcurrent ==
    \/ CallInit
    \/ Return
    \/ \E t \in Tasks : ConcBegin(t)
    \/ \E t \in Tasks : ConcFrameWrite(t)
    \/ \E t \in Tasks : ConcSumWrite(t)
    \/ \E t \in Tasks : ConcStatus(t)
    \/ \E t \in Tasks : ConcEnd(t)
SpecConcurrent == Init /\ [][NextConcurrent]_vars

-----------------------------------------------------------------------------
(* Reading the bus trace of the call that returned                         *)

Done(fn) == pc = "done" /\ call.fn = fn
DoneProp(fn, prop) == Done(fn) /\ call.prop = prop

BitSet(w, n) == (w \div BIT(n)) % 2 = 1

\* Event i is a completed write transaction of exactly these bytes.
WroteAt(i, bytes) ==
    trace[i].op = "write" /\ trace[i].ok /\ trace[i].bytes = bytes

\* Event i is a completed write of a control opcode.
CntlAt(i, opcode) ==
    WroteAt(i, <<BQ35100_REG_CONTROL_STATUS>> \o sys_put_le16(opcode))

\* Event i is a completed read of the status word.
StatusReadAt(i) ==
    /\ trace[i].op = "read"
    /\ trace[i].reg = BQ35100_REG_CONTROL_STATUS
    /\ trace[i].ok

StatusAt(i) == sys_get_le16(trace[i].bytes)

SleptAt(i, ms) == trace[i].op = "sleep" /\ trace[i].n = ms

AllOk == \A i \in DOMAIN trace : trace[i].ok

-----------------------------------------------------------------------------
(* Claims                                                                  *)

\* C1: setProperty(Start) returns success only if a status read made after
\* the GAUGE_START opcode was sent saw bit 0 set, and setProperty(Stop) only
\* if a status read made after the GAUGE_STOP opcode was sent saw bit 0 clear.
C1_StartStopObserved ==
    /\ (DoneProp("set_prop", "BQ35100_START") /\ ret = 0) =>
          \E i, j \in DOMAIN trace :
             /\ i < j
             /\ CntlAt(i, BQ35100_MAC_CMD_GAUGE_START)
             /\ StatusReadAt(j) /\ BitSet(StatusAt(j), 0)
    /\ (DoneProp("set_prop", "BQ35100_STOP") /\ ret = 0) =>
          \E i, j \in DOMAIN trace :
             /\ i < j
             /\ CntlAt(i, BQ35100_MAC_CMD_GAUGE_STOP)
             /\ StatusReadAt(j) /\ ~BitSet(StatusAt(j), 0)

\* C2: WaitForStatus(expected, mask, interval) returns 0 only if one of the
\* status words it read satisfied (status & mask) = expected.
C2_WaitSuccessNeedsMatch ==
    (Done("wait_for_status") /\ ret = 0) =>
       \E i \in DOMAIN trace :
          StatusReadAt(i) /\ BitAnd(StatusAt(i), call.b) = call.a

\* C3: when every transaction succeeds and no status word read matches,
\* WaitForStatus makes exactly MAX_RETRIES status reads, sleeps the poll
\* interval after each and fails; it never makes more than MAX_RETRIES reads.
C3_WaitTimeout ==
    Done("wait_for_status") =>
       LET reads == { i \in DOMAIN trace : trace[i].op = "read" }
       IN  /\ Cardinality(reads) <= CONFIG_BQ35100_MAX_RETRIES
           /\ ( AllOk /\ (\A i \in reads : BitAnd(StatusAt(i), call.b) # call.a) ) =>
                 /\ Cardinality(reads) = CONFIG_BQ35100_MAX_RETRIES
                 /\ \A i \in reads :
                       i + 1 \in DOMAIN trace /\ SleptAt(i + 1, 300)
                 /\ ret # 0

\* C4: initialize() returns success only if some status read of the call,
\* the initial one or one made while waiting, saw bit 7 (init complete) set.
C4_InitNeedsInitComplete ==
    (Done("init") /\ ret = 0) =>
       \E i \in DOMAIN trace : StatusReadAt(i) /\ BitSet(StatusAt(i), 7)

\* C5: extended-memory Write fails and performs no bus transaction when the
\* tracked mode is Unknown, the address is outside [0x4000, 0x43FF] or the
\* payload length is outside [1, 32].
C5_WritePreconditions ==
    ( /\ Done("write_extended_data")
      /\ \/ call.mode = SECURITY_UNKNOWN
         \/ call.a < 16384 \/ call.a > 17407
         \/ Len(call.data) < 1 \/ Len(call.data) > 32 )
    => (ret # 0 /\ trace = <<>>)

\* Event i is the write of the checksum / length pair.
SumWriteAt(i) ==
    trace[i].op = "write" /\ trace[i].reg = BQ35100_REG_MAC_DATA_SUM

\* C6: extended-memory Write fails whenever the status word read back after
\* the checksum/length write has bit 15 set, whatever the starting mode.
C6_WriteRejected ==
    ( /\ Done("write_extended_data")
      /\ \E i \in DOMAIN trace :
            /\ SumWriteAt(i) /\ trace[i].ok
            /\ i + 3 \in DOMAIN trace
            /\ StatusReadAt(i + 3) /\ BitSet(StatusAt(i + 3), 15) )
    => ret # 0

\* Event i is a completed read of a frame.
FrameReadAt(i) ==
    trace[i].op = "read" /\ trace[i].reg = BQ35100_REG_MAC /\ trace[i].ok

\* The checksum byte of frame f is the checksum of its address and data
\* bytes, as many as the length byte says (length - 2), which are bytes of
\* the frame.
FrameSumOk(f) ==
    /\ f[36] - 2 \in 0..Len(f)
    /\ f[35] = bq35100_compute_checksum(f, f[36] - 2)

\* C7: an extended-memory Read of a frame whose checksum byte is wrong
\* fails and copies nothing to the caller, whatever the starting mode.
C7_ReadChecksumMismatch ==
    ( /\ Done("read_extended_data")
      /\ \E i \in DOMAIN trace : FrameReadAt(i) /\ ~FrameSumOk(trace[i].bytes) )
    => (ret # 0 /\ out.copied = 0 /\ out.data = call.data)

\* A transaction of the transfer part of the extended-memory operation
\* that returned has failed: for Write the frame write, the checksum/length
\* write or the status read that follows it; for Read the address write or
\* the frame read-back.
TransferFailed ==
    \E i \in DOMAIN trace :
       \/ /\ call.fn = "write_extended_data"
          /\ \/ ~trace[i].ok /\ trace[i].op = "write"
                /\ trace[i].reg \in {BQ35100_REG_MAC, BQ35100_REG_MAC_DATA_SUM}
             \/ /\ SumWriteAt(i) /\ trace[i].ok
                /\ \E j \in {i + 2, i + 3} : j \in DOMAIN trace /\ ~trace[j].ok
       \/ /\ call.fn = "read_extended_data"
          /\ ~trace[i].ok
          /\ trace[i].reg = BQ35100_REG_MAC

\* C8: if a transport transaction of the transfer part of an extended-memory
\* Write or Read fails, the operation returns a failure, also when it
\* started in Sealed mode and the restoration to Sealed succeeds.
C8_TransferFailureReported ==
    ( (Done("write_extended_data") \/ Done("read_extended_data"))
      /\ TransferFailed )
    => ret # 0

\* (int16_t)r for a raw 16-bit value r
Signed16(r) == IF r >= 32768 THEN r - 65536 ELSE r

\* C9: getProperty(Current) returns 1000 times the raw register value read
\* as a signed 16-bit integer; raw 65436 yields -100000.
C9_CurrentSigned ==
    (DoneProp("get_prop", "CURRENT") /\ ret = 0) =>
       \E i \in DOMAIN trace :
          /\ trace[i].op = "read" /\ trace[i].ok
          /\ trace[i].reg = BQ35100_REG_CURRENT
          /\ out.val = 1000 * Signed16(sys_get_le16(trace[i].bytes))

\* C10: setProperty(NewBattery, c) returns success only after, in order: the
\* NEW_BATTERY opcode was sent, a settle delay, the write of c (big-endian,
\* 2 bytes) to the design-capacity address through the Write protocol
\* (frame, then checksum and length), and a second, longer delay; for every
\* tracked mode, Unknown included.
C10_NewBatterySequence ==
    (DoneProp("set_prop", "BQ35100_NEW_BATTERY") /\ ret = 0) =>
       \E i, j, k, l, m \in DOMAIN trace :
          /\ i < j /\ j < k /\ k < l /\ l < m
          /\ CntlAt(i, BQ35100_MAC_CMD_NEW_BATTERY)
          /\ trace[j].op = "sleep"
          /\ WroteAt(k, <<BQ35100_REG_MAC>>
                         \o sys_put_le16(BQ35100_FLASH_CMD_SET_NEW_CAPACITY)
                         \o sys_put_be16(call.a))
          /\ SumWriteAt(l) /\ trace[l].ok
          /\ trace[m].op = "sleep" /\ trace[m].n > trace[j].n

\* The two write transactions of the unseal key sequence.
UnsealKeyFirst ==
    << BQ35100_REG_CONTROL_STATUS,
       (BQ35100_DEFAULT_SEAL_CODES \div 65536) % 256,
       (BQ35100_DEFAULT_SEAL_CODES \div 16777216) % 256 >>
UnsealKeySecond ==
    << BQ35100_REG_CONTROL_STATUS,
       BQ35100_DEFAULT_SEAL_CODES % 256,
       (BQ35100_DEFAULT_SEAL_CODES \div 256) % 256 >>

\* Event i is a completed status read whose security field decodes to m.
SecurityReadAt(i, m) ==
    i \in DOMAIN trace /\ StatusReadAt(i) /\ FIELD_GET_SEC(StatusAt(i)) = m

\* Before event i the unseal key sequence was sent and verified: both key
\* halves were written, in order, and event i - 1 is the status read that
\* decodes to Unsealed.
UnsealedConfirmedBefore(i) ==
    /\ SecurityReadAt(i - 1, SECURITY_UNSEALED)
    /\ \E j1, j2 \in 1..(i - 2) :
          j1 < j2 /\ WroteAt(j1, UnsealKeyFirst) /\ WroteAt(j2, UnsealKeySecond)

\* Event i is a write transaction, completed or not, of a control opcode.
CntlTriedAt(i, opcode) ==
    /\ trace[i].op = "write"
    /\ trace[i].bytes = <<BQ35100_REG_CONTROL_STATUS>> \o sys_put_le16(opcode)

\* C11: setProperty(Reset) started in Sealed mode sends the RESET opcode only
\* after the unseal key sequence was sent and a status read confirmed
\* Unsealed; and when every transaction succeeds and the RESET opcode was
\* sent, the call returns 0, the success value of the other set operations.
C11_ResetUnsealsAndSucceeds ==
    DoneProp("set_prop", "BQ35100_RESET") =>
       /\ call.mode = SECURITY_SEALED =>
             \A i \in DOMAIN trace :
                CntlTriedAt(i, BQ35100_MAC_CMD_RESET) =>
                   UnsealedConfirmedBefore(i)
       /\ ( AllOk /\ \E i \in DOMAIN trace : CntlAt(i, BQ35100_MAC_CMD_RESET) )
             => ret = 0

\* The call that returned is a SetMode(m) request made right after another
\* SetMode(m) request that returned success.
RepeatedSetMode ==
    /\ Done("set_security_mode")
    /\ call.a \in {SECURITY_SEALED, SECURITY_UNSEALED, SECURITY_FULL_ACCESS}
    /\ prev.fn = "set_security_mode" /\ prev.a = call.a /\ prev.ret = 0

\* C12: for m in {Sealed, Unsealed, FullAccess}, a SetMode(m) that succeeded
\* leaves the tracked mode at m, and a SetMode(m) made right after it, as any
\* request for the mode already tracked, makes no bus transaction, returns
\* success and leaves the tracked mode unchanged.
C12_SetModeIdempotent ==
    /\ ( Done("set_security_mode") /\ ret = 0
         /\ call.a \in {SECURITY_SEALED, SECURITY_UNSEALED, SECURITY_FULL_ACCESS} )
       => g_security_mode = call.a
    /\ ( RepeatedSetMode
         \/ (Done("set_security_mode") /\ call.a = call.mode) )
       => (trace = <<>> /\ ret = 0 /\ g_security_mode = call.mode)

\* A SetMode(FullAccess) that changed the mode from Sealed and succeeded is
\* followed by a second SetMode(FullAccess).
C12_Witness ==
    /\ RepeatedSetMode
    /\ prev.mode = SECURITY_SEALED /\ call.a = SECURITY_FULL_ACCESS
    /\ trace = <<>> /\ ret = 0

\* Event i belongs to an unseal key sequence or its verification: a key
\* half, the delay between the halves, or a status read.
UnsealEventAt(i) ==
    \/ trace[i].op = "sleep"
    \/ /\ trace[i].op = "write"
       /\ trace[i].bytes \in {UnsealKeyFirst, UnsealKeySecond,
                              <<BQ35100_REG_CONTROL_STATUS>>}
    \/ trace[i].op = "read" /\ trace[i].reg = BQ35100_REG_CONTROL_STATUS

\* Event i is a write transaction, completed or not, of an unseal key half.
UnsealKeyTriedAt(i) ==
    trace[i].op = "write" /\ trace[i].bytes \in {UnsealKeyFirst, UnsealKeySecond}

\* C13: SetMode(FullAccess) started in Sealed mode begins with the unseal
\* key sequence, and its first transaction after that sequence (the read of
\* the full-access key) directly follows a status read that decoded to
\* Unsealed; SetMode(Unsealed) started in FullAccess mode sends the SEALED
\* opcode first, and its first unseal key half directly follows a status read
\* that decoded to Sealed.
C13_IntermediateMode ==
    /\ ( Done("set_security_mode") /\ call.mode = SECURITY_SEALED
         /\ call.a = SECURITY_FULL_ACCESS )
       => \A i \in DOMAIN trace :
             (~UnsealEventAt(i) /\ \A j \in 1..(i - 1) : UnsealEventAt(j))
                => UnsealedConfirmedBefore(i)
    /\ ( Done("set_security_mode") /\ call.mode = SECURITY_FULL_ACCESS
         /\ call.a = SECURITY_UNSEALED )
       => \A i \in DOMAIN trace :
             (UnsealKeyTriedAt(i) /\ \A j \in 1..(i - 1) : ~UnsealKeyTriedAt(j))
                => /\ CntlAt(1, BQ35100_MAC_CMD_SEALED)
                   /\ i > 2
                   /\ SecurityReadAt(i - 1, SECURITY_SEALED)

\* SetMode(FullAccess) started in Sealed mode went through Unsealed, read the
\* key, sent it and ended in FullAccess.
C13_Witness ==
    /\ Done("set_security_mode")
    /\ call.mode = SECURITY_SEALED /\ call.a = SECURITY_FULL_ACCESS
    /\ ret = 0 /\ g_security_mode = SECURITY_FULL_ACCESS
    /\ \E i \in DOMAIN trace : FrameReadAt(i) /\ i + 2 \in DOMAIN trace

\* Event i is a completed read of the answer to the device-type query.
DeviceTypeReadAt(i) ==
    /\ trace[i].op = "read" /\ trace[i].ok
    /\ trace[i].reg = BQ35100_REG_MAC_DATA

\* C14: initialize() returns success only if the device answered the
\* device-type query with 0x0100 and bits 13-14 of the first status word read
\* decode to Sealed, Unsealed or FullAccess, and then the tracked mode is that
\* decoded mode; when the device answers with another type, initialize()
\* fails and the tracked mode is what it was before the call.
C14_InitIdentityAndMode ==
    Done("init") =>
       /\ ret = 0 =>
             /\ \E i \in DOMAIN trace :
                   DeviceTypeReadAt(i)
                   /\ sys_get_le16(trace[i].bytes) = BQ35100_DEVICE_TYPE
             /\ 2 \in DOMAIN trace /\ StatusReadAt(2)
             /\ FIELD_GET_SEC(StatusAt(2)) \in
                   {SECURITY_SEALED, SECURITY_UNSEALED, SECURITY_FULL_ACCESS}
             /\ g_security_mode = FIELD_GET_SEC(StatusAt(2))
       /\ ( \E i \in DOMAIN trace :
               DeviceTypeReadAt(i)
               /\ sys_get_le16(trace[i].bytes) # BQ35100_DEVICE_TYPE )
          => (ret # 0 /\ g_security_mode = call.mode)

\* initialize() succeeded on a device that reports Sealed in its first
\* status word and FullAccess in the status word read during the
\* device-type query.
C14_Witness ==
    /\ Done("init") /\ ret = 0
    /\ g_security_mode = SECURITY_SEALED
    /\ \E i \in DOMAIN trace :
          i > 2 /\ SecurityReadAt(i, SECURITY_FULL_ACCESS)

\* The raw values a capacity query read: event 2 is the read of the
\* accumulated capacity (32-bit two's complement), event 4 the read of the
\* design capacity (16 bits, mAh).
CapacityRead ==
    /\ Len(trace) = 4 /\ AllOk
    /\ trace[2].op = "read" /\ trace[2].reg = BQ35100_REG_ACCUMULATED_CAPACITY
    /\ trace[4].op = "read" /\ trace[4].reg = BQ35100_REG_DESIGN_CAPACITY
AccumulatedRead ==
    trace[2].bytes[1] + 256 * trace[2].bytes[2] + 65536 * trace[2].bytes[3]
    + 16777216 * (IF trace[2].bytes[4] >= 128 THEN trace[2].bytes[4] - 256
                  ELSE trace[2].bytes[4])
DesignRead == trace[4].bytes[1] + 256 * trace[4].bytes[2]

\* clamp(d * 1000 + a, 0, d * 1000) for d in 0..65535 and a 32-bit signed a,
\* by cases so that no intermediate value leaves the 32-bit range
ClampedRemaining(d, a) ==
    IF a >= 0 THEN d * 1000
    ELSE IF a < -(d * 1000) THEN 0
    ELSE d * 1000 + a

\* C15: getProperty(RemainingCapacity) returns
\* clamp(d * 1000 + a, 0, d * 1000) for the design capacity d and the
\* accumulated capacity a it read, a value in [0, d * 1000];
\* (2000, -500000) gives 1500000, (2000, -5000000) gives 0 and
\* (2000, 100000) gives 2000000.
C15_RemainingCapacity ==
    (DoneProp("get_prop", "REMAINING_CAPACITY") /\ ret = 0) =>
       /\ CapacityRead
       /\ out.val = ClampedRemaining(DesignRead, AccumulatedRead)
       /\ 0 <= out.val /\ out.val <= DesignRead * 1000
       /\ DesignRead = 2000 =>
             /\ AccumulatedRead = -500000 => out.val = 1500000
             /\ AccumulatedRead = -5000000 => out.val = 0
             /\ AccumulatedRead = 100000 => out.val = 2000000

\* The remaining capacity of a 65535 mAh battery whose accumulated capacity
\* is the most negative 32-bit value was returned.
C15_Witness ==
    /\ DoneProp("get_prop", "REMAINING_CAPACITY") /\ ret = 0
    /\ CapacityRead
    /\ DesignRead = 65535 /\ AccumulatedRead = -2147483647 - 1
    /\ out.val = 0

\* clamp(remaining * 100 / (d * 1000), 0, 100) for d > 0, and 0 for d = 0;
\* the quotient is taken as remaining / (d * 10), which has the same integer
\* part and stays inside the 32-bit range
ExpectedStateOfCharge(d, a) ==
    IF d = 0 THEN 0
    ELSE LET q == ClampedRemaining(d, a) \div (d * 10)
         IN  IF q < 0 THEN 0 ELSE IF q > 100 THEN 100 ELSE q

\* C16: getProperty(AbsoluteStateOfCharge) returns
\* clamp(remaining * 100 / (d * 1000), 0, 100) for the design capacity d > 0
\* it read, remaining being the clamped remaining capacity, and 0 when
\* d = 0; the result is in [0, 100]; (2000, -1000000) gives 50.
C16_StateOfCharge ==
    (DoneProp("get_prop", "ABSOLUTE_STATE_OF_CHARGE") /\ ret = 0) =>
       /\ CapacityRead
       /\ out.val = ExpectedStateOfCharge(DesignRead, AccumulatedRead)
       /\ 0 <= out.val /\ out.val <= 100
       /\ DesignRead = 0 => out.val = 0
       /\ (DesignRead = 2000 /\ AccumulatedRead = -1000000) => out.val = 50

\* The state of charge of a half-discharged 2000 mAh battery was returned.
C16_Witness ==
    /\ DoneProp("get_prop", "ABSOLUTE_STATE_OF_CHARGE") /\ ret = 0
    /\ CapacityRead
    /\ DesignRead = 2000 /\ AccumulatedRead = -1000000
    /\ out.val = 50

\* C17: getProperty(Voltage) returns 1000 times the raw 16-bit value read
\* from the voltage register, a value below 2^31 (3700 gives 3700000), and
\* getProperty(DesignCapacity) returns the raw 16-bit value it read.
C17_VoltageAndDesignCapacity ==
    /\ (DoneProp("get_prop", "VOLTAGE") /\ ret = 0) =>
          /\ Len(trace) = 2
          /\ trace[2].op = "read" /\ trace[2].reg = BQ35100_REG_VOLTAGE
          /\ LET r == trace[2].bytes[1] + 256 * trace[2].bytes[2]
             IN  /\ out.val = r * 1000
                 /\ 0 <= out.val /\ out.val <= 65535000
                 /\ r = 3700 => out.val = 3700000
    /\ (DoneProp("get_prop", "DESIGN_CAPACITY") /\ ret = 0) =>
          /\ Len(trace) = 2
          /\ trace[2].op = "read" /\ trace[2].reg = BQ35100_REG_DESIGN_CAPACITY
          /\ out.val = trace[2].bytes[1] + 256 * trace[2].bytes[2]

\* The voltage of a device that reports the largest raw value was returned.
C17_Witness ==
    /\ DoneProp("get_prop", "VOLTAGE") /\ ret = 0
    /\ trace[2].bytes = <<255, 255>>
    /\ out.val = 65535000

\* The sum of the bytes of B
RECURSIVE ByteSum(_)
ByteSum(B) == IF B = <<>> THEN 0 ELSE B[1] + ByteSum(Tail(B))

\* C18: for every byte sequence B of length 0..34 the checksum is
\* 0xFF - (sum of the bytes of B mod 256), so the bytes and the checksum sum
\* to 0xFF mod 256, and a checksum byte s makes the covered bytes and s sum
\* to 0xFF (the frame verifies) exactly when s is the checksum of B.
C18_ChecksumComplement ==
    Done("compute_checksum") =>
       /\ Len(call.data) \in 0..MaxChecksumLen
       /\ out.val = 255 - (ByteSum(call.data) % 256)
       /\ (ByteSum(call.data) + out.val) % 256 = 255
       /\ \A s \in 0..255 :
             (s = out.val) <=> ((ByteSum(call.data) + s) % 256 = 255)

\* The checksum of a full 34-byte frame body whose sum wraps around 256.
C18_Witness ==
    /\ Done("compute_checksum")
    /\ Len(call.data) = 34
    /\ ByteSum(call.data) > 256
    /\ out.val \notin {0, 255}

\* Events i < j: i is the read-back of the frame that holds the full-access
\* key and j a write transaction of a key half (the 3-byte writes that follow
\* the key read; the status queries after them write 1 byte).
KeyHalfWriteAfter(i, j) ==
    /\ i < j
    /\ trace[i].op = "read" /\ trace[i].reg = BQ35100_REG_MAC
    /\ trace[j].op = "write" /\ trace[j].n = 3

\* C20: in SetMode(FullAccess), whatever key the extended-memory read
\* returned, both key-half write transactions carry the MAC register address
\* as their first byte.
C20_KeyWritesAddressMac ==
    (Done("set_security_mode") /\ call.a = SECURITY_FULL_ACCESS) =>
       \A i, j \in DOMAIN trace :
          KeyHalfWriteAfter(i, j) => trace[j].bytes[1] = BQ35100_REG_MAC

\* C19: the engine has no internal mutual exclusion. A caller that is not
\* inside the driver can always enter it, whatever the other callers are
\* doing, so that without external serialization another caller's bus
\* transactions and security-mode changes (its re-seal) can fall between the
\* frame write and the checksum/length write of a caller's extended-memory
\* Write; when the calls do not overlap (external serialization), nothing of
\* another caller ever falls between the two writes.
C19_NoInternalExclusion ==
    /\ \A t \in Tasks :
          (pc = "idle" /\ init_done /\ task[t].pc = "idle") => ENABLED ConcBegin(t)
    /\ ~overlapped => \A t \in Tasks : task[t].seen = {}

\* Without serialization: after caller t wrote its frame, another caller
\* made bus transactions and changed the tracked security mode, and then t
\* wrote its checksum and length.
C19_Witness ==
    /\ overlapped
    /\ \E t \in Tasks :
          /\ task[t].pc = "status"
          /\ task[t].seen = {"bus", "mode"}

\* Event i is a transaction, completed or not, on a register of the
\* ManufacturerAccessControl block: the address/data window or the
\* checksum/length pair.
MacEventAt(i) ==
    /\ trace[i].op \in {"write", "read"}
    /\ trace[i].reg \in {BQ35100_REG_MAC, BQ35100_REG_MAC_DATA_SUM}

\* C21: an extended-memory Write or Read started with tracked mode Sealed
\* makes its first MAC register transaction only after the unseal key
\* sequence was sent and a status read confirmed Unsealed, and after its last
\* MAC register transaction it sends the SEALED opcode; whenever it returns 0
\* the tracked mode is Sealed again.
C21_SealedRoundTrip ==
    ( (Done("write_extended_data") \/ Done("read_extended_data"))
      /\ call.mode = SECURITY_SEALED )
    => /\ \A i \in DOMAIN trace :
             (MacEventAt(i) /\ \A j \in 1..(i - 1) : ~MacEventAt(j))
                => /\ UnsealedConfirmedBefore(i)
                   /\ \E k \in DOMAIN trace :
                         /\ k > i
                         /\ CntlTriedAt(k, BQ35100_MAC_CMD_SEALED)
                         /\ \A j \in (k + 1)..Len(trace) : ~MacEventAt(j)
       /\ ret = 0 => g_security_mode = SECURITY_SEALED

\* A Write started in Sealed mode unsealed the device, transferred the
\* frame, sent the SEALED opcode and returned 0 with the mode Sealed again.
C21_Witness ==
    /\ Done("write_extended_data")
    /\ call.mode = SECURITY_SEALED
    /\ ret = 0 /\ g_security_mode = SECURITY_SEALED
    /\ \E i, k \in DOMAIN trace :
          /\ i < k
          /\ SumWriteAt(i) /\ trace[i].ok
          /\ CntlAt(k, BQ35100_MAC_CMD_SEALED)

\* Event j is the completed write that ends the transition byte sequence
\* for target: the SEALED opcode, the second half of the unseal key, or the
\* second of the two 3-byte writes that follow the read of the full-access
\* key.
TransitionSentAt(j, target) ==
    CASE target = SECURITY_SEALED -> CntlAt(j, BQ35100_MAC_CMD_SEALED)
      [] target = SECURITY_UNSEALED -> WroteAt(j, UnsealKeySecond)
      [] target = SECURITY_FULL_ACCESS ->
            /\ j > 2
            /\ trace[j].op = "write" /\ trace[j].ok /\ trace[j].n = 3
            /\ trace[j - 1].op = "write" /\ trace[j - 1].ok /\ trace[j - 1].n = 3
            /\ \E i \in 1..(j - 2) : FrameReadAt(i)
      [] OTHER -> FALSE

\* Event i belongs to a status query: the 1-byte write of the register
\* address or the 2-byte read that follows it.
StatusQueryAt(i) ==
    /\ trace[i].reg = BQ35100_REG_CONTROL_STATUS
    /\ \/ trace[i].op = "write" /\ trace[i].n = 1
       \/ trace[i].op = "read"

\* The call sent all the transition bytes for target and made nothing but
\* status queries after them.
TransitionSent(target) ==
    \E j \in DOMAIN trace :
       /\ TransitionSentAt(j, target)
       /\ j < Len(trace)
       /\ \A k \in (j + 1)..Len(trace) : StatusQueryAt(k)

\* C22: SetMode(target) with target different from the tracked mode returns
\* 0 only if the call sent the transition bytes and its last transaction, a
\* status read made after them, decoded to target in bits 13-14, and then
\* the tracked mode is target; when the status read that ends the call after
\* the transition bytes failed or decoded to another mode, the call returns
\* a failure.
C22_SetModeVerified ==
    (Done("set_security_mode") /\ call.a # call.mode) =>
       /\ ret = 0 =>
             /\ TransitionSent(call.a)
             /\ SecurityReadAt(Len(trace), call.a)
             /\ g_security_mode = call.a
       /\ (TransitionSent(call.a) /\ ~SecurityReadAt(Len(trace), call.a))
             => ret # 0

\* A SetMode(Sealed) from Unsealed sent the opcode, its verifying status
\* read failed on the bus, and the call returned a failure.
C22_Witness ==
    /\ Done("set_security_mode")
    /\ call.mode = SECURITY_UNSEALED /\ call.a = SECURITY_SEALED
    /\ TransitionSent(call.a)
    /\ ~trace[Len(trace)].ok
    /\ ret # 0

\* The tracked mode at the start of the last transition step of the
\* SetMode call that returned: the intermediate mode when the call went
\* through one (bq35100.c:438-444, 479-485), the mode at entry otherwise.
StepStartMode ==
    IF call.a = SECURITY_FULL_ACCESS /\ call.mode = SECURITY_SEALED
    THEN SECURITY_UNSEALED
    ELSE IF call.a = SECURITY_UNSEALED /\ call.mode = SECURITY_FULL_ACCESS
    THEN SECURITY_SEALED
    ELSE call.mode

\* C23: a transition step of SetMode whose verifying status read, the last
\* transaction of the call, reports a mode different from the requested
\* target leaves the tracked mode equal to its value before that step.
C23_FailedStepKeepsMode ==
    ( /\ Done("set_security_mode")
      /\ call.a # call.mode
      /\ TransitionSent(call.a)
      /\ StatusReadAt(Len(trace))
      /\ FIELD_GET_SEC(StatusAt(Len(trace))) # call.a )
    => g_security_mode = StepStartMode

\* The number of events of the trace that satisfy P.
Count(P(_)) == Cardinality({ i \in DOMAIN trace : P(i) })

SealedTriedAt(i) == CntlTriedAt(i, BQ35100_MAC_CMD_SEALED)
UnsealFirstTriedAt(i) ==
    trace[i].op = "write" /\ trace[i].bytes = UnsealKeyFirst
UnsealSecondTriedAt(i) ==
    trace[i].op = "write" /\ trace[i].bytes = UnsealKeySecond
\* Event i is the read-back of the full-access key frame, completed or not.
KeyReadTriedAt(i) == trace[i].op = "read" /\ trace[i].reg = BQ35100_REG_MAC
\* Event i is a write of a half of the full-access key.
KeyHalfTriedAt(i) == \E k \in 1..(i - 1) : KeyHalfWriteAfter(k, i)

C25_UnknownTargetRejected ==
    (Done("set_security_mode") /\ call.a = SECURITY_UNKNOWN) =>
       /\ ret # 0
       /\ trace = <<>>
       /\ g_security_mode = call.mode

\* C26: a transaction of a status read of WaitForStatus that fails is the
\* last event of the call, no further status read and no sleep follow it,
\* and the call returns a failure.
C26_WaitReadFailurePropagates ==
    Done("wait_for_status") =>
       \A i \in DOMAIN trace :
          ~trace[i].ok => (i = Len(trace) /\ ret # 0)

\* The call that returned reached its transfer part.
TransferReached == \E i \in DOMAIN trace : MacEventAt(i)

\* The restoration to Sealed went through: the SEALED opcode was written and
\* the last transaction of the call is a status read that decodes to Sealed.
RestoredToSealed ==
    /\ \E k \in DOMAIN trace : CntlAt(k, BQ35100_MAC_CMD_SEALED)
    /\ SecurityReadAt(Len(trace), SECURITY_SEALED)

EchoMatches(f, address) == <<f[1], f[2]>> = sys_put_le16(address)

\* C28: an extended-memory Read of an address in [0x4000, 0x43FF], started
\* Unsealed or in FullAccess, that read a frame back: when the echoed address
\* differs from the requested one the call fails and copies nothing, and
\* when it is the requested one the frame is not rejected for its address:
\* with a right checksum and a length byte in 4..36 the call returns 0; this
\* for every address, low byte 0x80 or above included.
C28_AddressEcho ==
    ( /\ Done("read_extended_data")
      /\ call.mode \in {SECURITY_UNSEALED, SECURITY_FULL_ACCESS}
      /\ call.a >= 16384 /\ call.a <= 17407 )
    => \A i \in DOMAIN trace :
          FrameReadAt(i) =>
             LET f == trace[i].bytes
             IN  /\ ~EchoMatches(f, call.a) => (ret # 0 /\ out.copied = 0)
                 /\ ( /\ EchoMatches(f, call.a)
                      /\ FrameSumOk(f)
                      /\ f[36] >= 4 /\ f[36] <= 36 )
                    => ret = 0

\* C29: extended-memory Read returns a failure, makes no bus transaction,
\* copies nothing and leaves the tracked mode unchanged when the tracked
\* mode is Unknown or the address is outside [0x4000, 0x43FF].
C29_ReadPreconditions ==
    ( /\ Done("read_extended_data")
      /\ \/ call.mode = SECURITY_UNKNOWN
         \/ call.a < 16384 \/ call.a > 17407 )
    => /\ ret # 0
       /\ trace = <<>>
       /\ out.copied = 0 /\ out.data = call.data
       /\ g_security_mode = call.mode

\* A Read of the first address above the range was refused while the
\* tracked mode was Sealed: no unseal was attempted.
C29_Witness ==
    /\ Done("read_extended_data")
    /\ call.mode = SECURITY_SEALED /\ call.a = 17408
    /\ ret # 0 /\ trace = <<>>
    /\ g_security_mode = SECURITY_SEALED

\* Frame f passes the two verifications the Read makes for the requested
\* address: the comparison of the echoed bytes with the address bytes taken
\* as plain char (bq35100.c:280), and the checksum over length - 2 bytes.
PassesVerification(f, address) ==
    /\ f[1] = CharOf(char_is_signed, address % 256)
    /\ f[2] = CharOf(char_is_signed, (address \div 256) % 256)
    /\ FrameSumOk(f)

\* C30: when the frame an extended-memory Read got back passes the address
\* and checksum verification and its length byte L is in 4..36, the caller
\* receives exactly min(L - 4, maxLen) bytes: the frame's bytes from the
\* third on, at the head of its buffer, the rest of the buffer untouched.
C30_DeliveredData ==
    Done("read_extended_data") =>
       \A i \in DOMAIN trace :
          ( /\ FrameReadAt(i)
            /\ PassesVerification(trace[i].bytes, call.a)
            /\ trace[i].bytes[36] >= 4 /\ trace[i].bytes[36] <= 36 )
          => LET f == trace[i].bytes
                 n == IF f[36] - 4 < call.b THEN f[36] - 4 ELSE call.b
             IN  /\ out.copied = n
                 /\ Len(out.data) = call.b
                 /\ \A k \in 1..call.b :
                       out.data[k] = IF k <= n THEN f[2 + k] ELSE call.data[k]

\* A Read with a 6-byte buffer got a frame of length byte 8: 4 bytes were
\* delivered and the last 2 bytes of the buffer kept their contents.
C30_Witness ==
    /\ Done("read_extended_data")
    /\ call.b = 6
    /\ ret = 0
    /\ out.copied = 4
    /\ out.data = <<1, 2, 3, 200, CallerFill, CallerFill>>
    /\ \E i \in DOMAIN trace :
          /\ FrameReadAt(i) /\ trace[i].bytes[36] = 8
          /\ PassesVerification(trace[i].bytes, call.a)

\* C31: whatever length byte the frame read back carries, the checksum
\* verification of an extended-memory Read terminates and sums only bytes of
\* the received frame: the call returns, and it has read nothing outside
\* the frame.
C31_ChecksumStaysInFrame ==
    ( /\ call.fn = "read_extended_data"
      /\ pc \in {"done", "hung"}
      /\ \E i \in DOMAIN trace : FrameReadAt(i) )
    => (pc = "done" /\ out.fault = "none")

\* C32: an extended-memory Read that read a frame back with length byte L
\* copies at most max(L - 4, 0) bytes to the caller, and at most 32; a frame
\* with L < 4 delivers nothing.
C32_DeliveryWithinPayload ==
    Done("read_extended_data") =>
       \A i \in DOMAIN trace :
          FrameReadAt(i) =>
             LET L == trace[i].bytes[36]
             IN  /\ out.copied <= (IF L - 4 > 0 THEN L - 4 ELSE 0)
                 /\ out.copied <= BQ35100_MAC_DATA_LEN
                 /\ L < 4 => out.data = call.data

\* C33: in every SetMode call, a completed write of the second half of the
\* unseal key comes after a completed write of the first (high) half, both to
\* the control/status register, with a settle delay right before it, and
\* what follows it, the verifying status read, starts after another settle
\* delay.
C33_UnsealKeyDelays ==
    Done("set_security_mode") =>
       \A j \in DOMAIN trace :
          WroteAt(j, UnsealKeySecond) =>
             /\ j > 2
             /\ WroteAt(j - 2, UnsealKeyFirst)
             /\ SleptAt(j - 1, BQ35100_FLASH_WRITE_DELAY)
             /\ j + 1 \in DOMAIN trace
             /\ SleptAt(j + 1, BQ35100_FLASH_WRITE_DELAY)

\* The transaction that writes the frame of the Write that returned, and
\* the one that writes its checksum and length.
WriteFrameBytes ==
    <<BQ35100_REG_MAC>> \o sys_put_le16(call.a) \o call.data
WriteSumBytes ==
    << BQ35100_REG_MAC_DATA_SUM,
       255 - (ByteSum(sys_put_le16(call.a) \o call.data) % 256),
       Len(call.data) + 4 >>

\* Nothing of a transfer happens from event i on: no MAC register
\* transaction, and event i is not a settle delay.
NoTransferFrom(i) ==
    /\ \A j \in i..Len(trace) : ~MacEventAt(j)
    /\ i \in DOMAIN trace => trace[i].op # "sleep"

\* C34: the transfer of an extended-memory Write that passed its
\* preconditions is, from its first MAC register transaction on: the write
\* of [address low, address high] and the payload to the MAC register, a
\* settle delay, the write of [checksum of address bytes and payload,
\* payload length + 4] to the checksum/length pair, a settle delay, one
\* status read; each of these once, and a transaction that fails is the last
\* step of the transfer.
C34_WriteTransferOrder ==
    Done("write_extended_data") =>
       /\ ( /\ call.mode \in {SECURITY_UNSEALED, SECURITY_FULL_ACCESS}
            /\ call.a >= 16384 /\ call.a <= 17407
            /\ Len(call.data) >= 1 /\ Len(call.data) <= 32 )
          => (trace # <<>> /\ MacEventAt(1))
       /\ \A i \in DOMAIN trace :
             (MacEventAt(i) /\ \A j \in 1..(i - 1) : ~MacEventAt(j)) =>
                /\ trace[i].op = "write" /\ trace[i].bytes = WriteFrameBytes
                /\ IF ~trace[i].ok THEN NoTransferFrom(i + 1)
                   ELSE /\ i + 2 \in DOMAIN trace
                        /\ SleptAt(i + 1, BQ35100_FLASH_WRITE_DELAY)
                        /\ trace[i + 2].op = "write"
                        /\ trace[i + 2].bytes = WriteSumBytes
                        /\ IF ~trace[i + 2].ok THEN NoTransferFrom(i + 3)
                           ELSE /\ i + 4 \in DOMAIN trace
                                /\ SleptAt(i + 3, BQ35100_FLASH_WRITE_DELAY)
                                /\ StatusQueryAt(i + 4)
                                /\ trace[i + 4].ok =>
                                      /\ i + 5 \in DOMAIN trace
                                      /\ trace[i + 5].op = "read"
                                      /\ StatusQueryAt(i + 5)
                                /\ NoTransferFrom(IF trace[i + 4].ok
                                                  THEN i + 6 ELSE i + 5)

\* A Write of 32 bytes started in FullAccess made exactly the five steps.
C34_Witness ==
    /\ Done("write_extended_data")
    /\ call.mode = SECURITY_FULL_ACCESS
    /\ Len(call.data) = 32
    /\ Len(trace) = 6
    /\ AllOk
    /\ WroteAt(1, WriteFrameBytes) /\ WroteAt(3, WriteSumBytes)
    /\ StatusReadAt(6)

\* C35: for every address in [0x4000, 0x43FF] and every payload of 1..32
\* bytes, the frame that holds the address bytes, the payload, and the
\* checksum and length byte stamped by Write passes the verification of Read
\* for that address, and Read delivers the first min(n, maxLen) payload
\* bytes.
C35_WriteReadAgree ==
    Done("round_trip") =>
       LET n == IF Len(call.data) < call.b THEN Len(call.data) ELSE call.b
       IN  /\ ret = 0
           /\ out.fault = "none"
           /\ out.copied = n
           /\ \A k \in 1..n : out.data[k] = call.data[k]

C37_NeverUnknownAgain ==
    [][ /\ g_security_mode # SECURITY_UNKNOWN => g_security_mode' # SECURITY_UNKNOWN
        /\ g_security_mode' \in {SECURITY_UNKNOWN, SECURITY_FULL_ACCESS,
                                 SECURITY_UNSEALED, SECURITY_SEALED} ]_vars

\* A SetMode(Sealed) from Unsealed read 0 in bits 13-14 of the verifying
\* status word and failed; the tracked mode is still Unsealed.
C37_Witness ==
    /\ Done("set_security_mode")
    /\ call.mode = SECURITY_UNSEALED /\ call.a = SECURITY_SEALED
    /\ TransitionSent(call.a)
    /\ SecurityReadAt(Len(trace), SECURITY_UNKNOWN)
    /\ ret # 0
    /\ g_security_mode = SECURITY_UNSEALED

\* The registers getProperty reads.
PropertyRegisters ==
    { BQ35100_REG_VOLTAGE, BQ35100_REG_CURRENT, BQ35100_REG_DESIGN_CAPACITY,
      BQ35100_REG_ACCUMULATED_CAPACITY }

\* Events i, i + 1 are a register read of n bytes at reg: the 1-byte write
\* of the register address and, when that write completed, the read.
RegisterReadFrom(i, reg, n) ==
    /\ i \in DOMAIN trace
    /\ trace[i].op = "write" /\ trace[i].bytes = <<reg>>
    /\ IF trace[i].ok
       THEN /\ i + 1 \in DOMAIN trace
            /\ trace[i + 1].op = "read" /\ trace[i + 1].reg = reg
            /\ trace[i + 1].n = n
       ELSE i = Len(trace)

\* C38: getProperty leaves the tracked security mode as it was, whatever it
\* was: its only writes are the 1-byte register addresses of its reads, all
\* of property registers (no control opcode, nothing to the MAC registers),
\* and with every transaction completed it succeeds for each supported
\* property, also while the mode is Unknown. For RemainingCapacity and
\* AbsoluteStateOfCharge the call starts with the read of the accumulated
\* capacity, reads the design capacity after it, and makes no second read
\* when the first failed.
C38_GetPropertyFrame ==
    Done("get_prop") =>
       /\ g_security_mode = call.mode
       /\ out.assigned = <<>>
       /\ \A i \in DOMAIN trace :
             /\ trace[i].op \in {"write", "read"}
             /\ trace[i].reg \in PropertyRegisters
             /\ trace[i].op = "write" => trace[i].n = 1
       /\ (AllOk /\ call.prop # "TEMPERATURE") => ret = 0
       /\ call.prop \in {"REMAINING_CAPACITY", "ABSOLUTE_STATE_OF_CHARGE"} =>
             /\ RegisterReadFrom(1, BQ35100_REG_ACCUMULATED_CAPACITY, 4)
             /\ IF Len(trace) >= 2 /\ trace[2].ok
                THEN /\ RegisterReadFrom(3, BQ35100_REG_DESIGN_CAPACITY, 2)
                     /\ Len(trace) <= 4
                ELSE Len(trace) <= 2 /\ ret # 0

\* A getProperty(RemainingCapacity) made before initialize, with the mode
\* Unknown, read both registers in order and succeeded.
C38_Witness ==
    /\ DoneProp("get_prop", "REMAINING_CAPACITY")
    /\ call.mode = SECURITY_UNKNOWN /\ g_security_mode = SECURITY_UNKNOWN
    /\ Len(trace) = 4 /\ AllOk
    /\ trace[2].reg = BQ35100_REG_ACCUMULATED_CAPACITY
    /\ trace[4].reg = BQ35100_REG_DESIGN_CAPACITY
    /\ ret = 0

\* C39: the security mode is tracked per device instance: a returned
\* initialize, SetMode or extended-memory operation on one instance leaves
\* the mode held for every other initialized instance as it was when the
\* call started.
C39_ModePerInstance ==
    (/\ pc = "done"
     /\ call.fn \in {"init", "set_security_mode", "write_extended_data",
                     "read_extended_data"}) =>
       \A e \in inst_done \ {call.dev} : security_mode_of(e) = call.mode

=============================================================================
